---------------------------- MODULE Spec2Model ----------------------------
(***************************************************************************)
(* Lab06: concurrency exercises.  Each program of the repository is a      *)
(* separate executable; the variable `program' records which one runs.     *)
(*                                                                         *)
(*   ring_api        p2_ring.cpp, producer_thread / consumer_thread with   *)
(*                   ring_shutdown and ring_force_stop called at any time  *)
(*   ring_benchmark  p2_ring.cpp, run_benchmark                            *)
(*   buffer_api      p5_pipeline.cpp, push_to_bufferN / pop_from_bufferN   *)
(*                   called by client threads in any interleaving, on      *)
(*                   buffer api_buf and by the threads api_clients         *)
(*   pipeline        p5_pipeline.cpp, run_pipeline_benchmark               *)
(*   counter         p1_counter.cpp, benchmark_strategy with one of the    *)
(*                   four worker functions                                 *)
(*   deadlock_demo   p4_deadlock.cpp, demonstrate_deadlock                 *)
(*   ordered         p4_deadlock.cpp, benchmark_ordered_solution           *)
(*   trylock         p4_deadlock.cpp, benchmark_trylock_solution           *)
(*   hashmap         p3_rw.cpp, populate_hashmap and benchmark_hashmap on  *)
(*                   a MutexHashMap or a RWLockHashMap                     *)
(*                                                                         *)
(* Critical sections of the Ring are all guarded by ring->mutex and touch  *)
(* nothing else, so each is one atomic step; a thread gives the mutex up   *)
(* only inside pthread_cond_wait.  In the pipeline pipeline_shutdown is    *)
(* written under shutdown_mutex and read under the buffer mutexes, so the  *)
(* steps of a buffer operation are cut at every read of that flag.         *)
(***************************************************************************)
EXTENDS Integers, Sequences, FiniteSets, TLC

\* ------------------------------------------------------------------------
\* Bounds of the model
\* ------------------------------------------------------------------------

\* p2_ring.cpp:25 sets 1024; the model uses a small ring.
QUEUE_SIZE == 2

\* items_per_producer (p2_ring.cpp:340 defaults to 100000)
ItemsPerProducer == 2

\* p2_ring.cpp:338, p2_ring.cpp:339: the default MPMC configuration
NumProducers == 2
NumConsumers == 2

POISON_PILL == -1

\* int buffer[QUEUE_SIZE] is not initialised; the marker is a value no
\* producer makes.
UNINIT == -2

Producers == {<<"P", i>> : i \in 0..(NumProducers - 1)}
Consumers == {<<"C", i>> : i \in 0..(NumConsumers - 1)}
RingThreads == Producers \cup Consumers

RingPrograms == {"ring_api", "ring_benchmark"}

\* p5_pipeline.cpp:30 sets 100; the model uses small buffers.
BUFFER_SIZE == 2

\* p5_pipeline.cpp:29 sets 1000 ticks.
DEFAULT_TICKS == 2

\* calls made by each client thread of the buffer harness
MaxCalls == 2

\* outcomes of value_dist(*global_rng) the model draws from
RawValues == {7, 10}

\* <<num_ticks, log file can be opened>>: main's default run, and a run
\* with a smaller argv[1] in which the log file cannot be opened
DefaultConfig == <<DEFAULT_TICKS, TRUE>>
RunConfigs == {DefaultConfig, <<DEFAULT_TICKS - 1, FALSE>>}

\* the stage threads, named by the stage_id run_pipeline_benchmark gives them
Generator == <<"stage", 1>>
Processor == <<"stage", 2>>
Filter == <<"stage", 3>>
Stages == {Generator, Processor, Filter}
Pushers == {<<"push", k>> : k \in 1..2}
Poppers == {<<"pop", k>> : k \in 1..2}
Clients == Pushers \cup Poppers
BufThreads == Stages \cup Clients

\* the client threads of one run of the buffer harness: two pushers and a
\* popper, or a pusher and two poppers
ClientSets == {Pushers \cup {<<"pop", 1>>}, {<<"push", 1>>} \cup Poppers}

\* the runs of the buffer harness, <<buffer, clients>>: the two pushers
\* work on stage1_to_stage2, the two poppers on stage2_to_stage3
ApiRuns ==
    {<<b, c>> \in {1, 2} \X ClientSets : b = 1 <=> Pushers \subseteq c}

PipePrograms == {"buffer_api", "pipeline"}

\* p1_counter.cpp:187 takes the iterations of a thread from argv[2]
\* (1000000 by default); the model uses a small number.
Iterations == 2

\* the worker threads of a benchmark_strategy run with num_threads = 2, by
\* their index in threads[] and args[]
Workers == {0, 1}

\* the four worker functions main hands to benchmark_strategy
Strategies == {"worker_naive", "worker_mutex", "worker_sharded", "worker_atomic"}

\* p4_deadlock.cpp:83 and 126: thread_deadlock_1 and thread_deadlock_2 make
\* 5 iterations
DeadlockIterations == 2

\* p4_deadlock.cpp:173: thread_ordered_lock makes 10 iterations
OrderedIterations == 2

\* p4_deadlock.cpp:221: thread_trylock_backoff makes 10 iterations
BackoffIterations == 2

\* p4_deadlock.cpp:226: retry_count < 50
MaxRetries == 2

\* the parts of p4_deadlock.cpp's main: demonstrate_deadlock,
\* benchmark_ordered_solution and benchmark_trylock_solution
LockPrograms == {"deadlock_demo", "ordered", "trylock"}

\* the thread ids a part of main may use: thread_ids[i] = i + 1
AllLockThreads == 1..3

\* INITIAL_ENTRIES (p3_rw.cpp:28 sets 500): the put calls of populate_hashmap
INITIAL_ENTRIES == 1

\* ops_per_thread (p3_rw.cpp:436 defaults to 100000)
OpsPerThread == 2

\* the worker threads of benchmark_hashmap, two of main's four
MapThreads == {<<"map", 0>>, <<"map", 1>>}

\* outcomes of key_dist and val_dist the model draws from
Keys == {0, 1}
Values == {1}

Programs ==
    RingPrograms \cup PipePrograms \cup {"counter"} \cup LockPrograms \cup {"hashmap"}

VARIABLES
    program,      \* which executable / harness runs
    api_buf,      \* buffer_api: the buffer the clients work on
    api_clients,  \* buffer_api: the client threads that run
    ring,         \* struct Ring (without its statistics of blocking)
    rpc,          \* position of every producer and consumer thread
    r_i,          \* producer_thread: loop variable i
    r_ret,        \* last value returned by ring_push / ring_pop to a thread
    r_blocked,    \* whether the thread's current call has slept in a wait
    mpc,          \* run_benchmark: position of the main thread
    pushed,       \* history: values inserted, in insertion order
    popped,       \* history: values removed, in removal order
    r_drained,    \* history: values removed while the ring was stopping
    buffers,            \* <<stage1_to_stage2, stage2_to_stage3>>
    buffer_mutex,       \* holder of buffer1_mutex, buffer2_mutex
    pipeline_shutdown,
    pc,                 \* position of every stage and client thread
    call,               \* the buffer operation a thread is in
    tick,               \* loop variable of every stage
    ncalls,             \* calls a client has started
    pipeline_stats,
    barrier,            \* pipeline_barrier
    b_arrived,          \* history: pthread_barrier_wait calls of a stage
    b_returned,         \* history: returns from pthread_barrier_wait
    b_serial,           \* history: PTHREAD_BARRIER_SERIAL_THREAD results
    once_flag,
    sdpc,               \* position of the caller of request_pipeline_shutdown
    b_pushed,           \* history per buffer: items inserted, in order
    b_popped,           \* history per buffer: items removed, in order
    b_drained,          \* history: items removed with pipeline_shutdown set
    num_ticks,          \* argument of run_pipeline_benchmark
    log_openable,       \* whether data/pipeline_log.txt can be opened
    global_rng,         \* the engine: whether it is made, and its outputs so far
    log_file,           \* the log sink and the records written by each stage
    init_runs,          \* history: executions of init_shared_resources
    ppc,                \* run_pipeline_benchmark: stage threads joined so far
    sd_calls,           \* calls of request_pipeline_shutdown so far
    ret,                \* last value a buffer function returned to a client
    stats_mutex,        \* holder of pipeline_stats.stats_mutex
    stat_reg,           \* the value a stage has read in its stats_mutex section
    shutdown_mutex,     \* holder of shutdown_mutex
    accumulated_result, \* stage_filter_reduce: its local sum, in thousandths
    worker_func,        \* benchmark_strategy: the worker function of the run
    global_counter,
    mtx,                \* holder of benchmark_strategy's mutex
    local_counters,
    atomic_counter,
    wpc,                \* position of every worker thread
    w_i,                \* loop variable i of every worker
    w_reg,              \* the value a worker has loaded and not yet stored
    joined,             \* benchmark_strategy: workers joined so far
    final_result,       \* benchmark_strategy: final_result, once computed
    num_threads,        \* p4_deadlock.cpp: the threads of the part that runs
    mutexes,            \* holders of mutex_A and mutex_B
    global_stats,
    tpc,                \* position of every thread of p4_deadlock.cpp
    t_i,                \* loop variable i of every thread
    retry_count,        \* thread_trylock_backoff: retry_count
    failed_trylocks,    \* history: pthread_mutex_trylock calls that failed
    threads_joined,     \* threads joined so far by the part that runs
    hashmap,            \* the MutexHashMap or RWLockHashMap of the run
    mw,                 \* worker_thread: position, i and the drawn operation
    bench               \* benchmark_hashmap: its map kind and its progress

ringVars == <<ring, rpc, r_i, r_ret, r_blocked, mpc, pushed, popped, r_drained>>
pipeVars == <<buffers, buffer_mutex, pipeline_shutdown, pc, call, tick,
              ncalls, pipeline_stats, barrier, b_arrived, b_returned,
              b_serial, once_flag, sdpc, b_pushed, b_popped, b_drained,
              global_rng, log_file, init_runs, ppc, sd_calls, ret,
              stats_mutex, stat_reg, shutdown_mutex, accumulated_result>>
statVars == <<stats_mutex, stat_reg, shutdown_mutex, accumulated_result>>
initVars == <<global_rng, log_file, init_runs>>
coordVars == <<ppc, sd_calls, ret>>
p1Vars == <<worker_func, global_counter, mtx, local_counters, atomic_counter,
            wpc, w_i, w_reg, joined, final_result>>
p4Vars == <<num_threads, mutexes, global_stats, tpc, t_i, retry_count,
            failed_trylocks, threads_joined>>
p3Vars == <<hashmap, mw, bench>>
harness == <<program, api_buf, api_clients, num_ticks, log_openable>>
vars == <<harness, ringVars, pipeVars, p1Vars, p4Vars, p3Vars>>

\* ------------------------------------------------------------------------
\* p2_ring.cpp
\* ------------------------------------------------------------------------

RingInit ==
    /\ ring = [buffer |-> [k \in 0..(QUEUE_SIZE - 1) |-> UNINIT],
               head |-> 0, tail |-> 0, count |-> 0,
               stop_requested |-> FALSE, force_stop |-> FALSE,
               total_produced |-> 0, total_consumed |-> 0]
    /\ rpc = [t \in RingThreads |-> "call"]
    /\ r_i = [p \in Producers |-> 0]
    /\ r_ret = [t \in RingThreads |-> "none"]
    /\ r_blocked = [t \in RingThreads |-> FALSE]
    /\ mpc = "join_producers"
    /\ pushed = <<>>
    /\ popped = <<>>
    /\ r_drained = 0

\* int value = args->producer_id * 1000000 + i
ProducerValue(p, i) == p[2] * 1000000 + i

Stopping(r) == r.stop_requested \/ r.force_stop

\* off by one: a producer waits only when the ring is over-full
PushMustWait_OffByOne(r) == r.count > QUEUE_SIZE /\ ~Stopping(r)

\* the wait predicate of ring_push
PushMustWait(r) == r.count = QUEUE_SIZE /\ ~Stopping(r)

\* the wait predicate of ring_pop
PopMustWait(r) == r.count = 0 /\ ~Stopping(r)

\* ring_push refuses only when there is no room
PushRefused_OnlyFull(r) == Stopping(r) /\ r.count = QUEUE_SIZE

\* ring_push refuses
PushRefused(r) == Stopping(r)

\* ring_pop gives up on shutdown with values still in the ring
PopRefused_NoDrain(r) == Stopping(r)

\* ring_pop gives up
PopRefused(r) == r.count = 0 /\ Stopping(r)

\* the insertion without the wrap of head
RingInsert_NoWrap(r, value) ==
    [r EXCEPT !.buffer[r.head] = value,
              !.head = r.head + 1,
              !.count = r.count + 1,
              !.total_produced = r.total_produced + 1]

\* the insertion of ring_push
RingInsert(r, value) ==
    [r EXCEPT !.buffer[r.head] = value,
              !.head = (r.head + 1) % QUEUE_SIZE,
              !.count = r.count + 1,
              !.total_produced = r.total_produced + 1]

\* the value is read at head instead of tail
RingFront_AtHead(r) == r.buffer[r.head]

\* the removal of ring_pop (the value is read by RingFront)
RingFront(r) == r.buffer[r.tail]

RingRemove(r) ==
    [r EXCEPT !.tail = (r.tail + 1) % QUEUE_SIZE,
              !.count = r.count - 1,
              !.total_consumed = r.total_consumed + 1]

Sleepers(S) == {t \in S : rpc[t] = "waiting"}

\* the signal is left out: nobody is woken
Signalled_Nobody(f, S) == {f}

\* pthread_cond_signal: one of the threads asleep on the condition, if any,
\* is woken; f is the position function to update.
Signalled(f, S) ==
    IF Sleepers(S) = {} THEN {f}
    ELSE {[f EXCEPT ![w] = "woken"] : w \in Sleepers(S)}

\* pthread_cond_signal in the place of the broadcasts: one sleeper of each
\* condition is woken
BroadcastAll_Signal(f) ==
    LET one(S) == IF Sleepers(S) = {} THEN {} ELSE {CHOOSE w \in Sleepers(S) : TRUE}
    IN [t \in RingThreads |->
          IF t \in one(Producers) \cup one(Consumers) THEN "woken" ELSE f[t]]

\* pthread_cond_broadcast on not_full and on not_empty
BroadcastAll(f) ==
    [t \in RingThreads |-> IF f[t] = "waiting" THEN "woken" ELSE f[t]]

\* A wait that has been woken returns without the condition signalled too
\* (spurious wakeup).
SpuriousWakeup(t) ==
    /\ program \in RingPrograms
    /\ rpc[t] = "waiting"
    /\ rpc' = [rpc EXCEPT ![t] = "woken"]
    /\ UNCHANGED <<harness, p3Vars, p4Vars, p1Vars, pipeVars, ring, r_i, r_ret, r_blocked, mpc, pushed, popped, r_drained>>

\* producer_thread calling ring_push, from the lock to the wait or the return
ring_push(p) ==
    /\ program \in RingPrograms
    /\ rpc[p] \in {"call", "woken"}
    /\ IF PushMustWait(ring)
       THEN /\ rpc' = [rpc EXCEPT ![p] = "waiting"]
            /\ r_blocked' = [r_blocked EXCEPT ![p] = TRUE]
            /\ UNCHANGED <<ring, r_i, r_ret, pushed>>
       ELSE IF PushRefused(ring)
       THEN /\ r_ret' = [r_ret EXCEPT ![p] = "false"]
            /\ rpc' = [rpc EXCEPT ![p] = "done"]
            /\ UNCHANGED <<ring, r_i, r_blocked, pushed>>
       ELSE /\ ring' = RingInsert(ring, ProducerValue(p, r_i[p]))
            /\ pushed' = Append(pushed, ProducerValue(p, r_i[p]))
            /\ r_ret' = [r_ret EXCEPT ![p] = "true"]
            /\ r_i' = [r_i EXCEPT ![p] = r_i[p] + 1]
            /\ r_blocked' = [r_blocked EXCEPT ![p] = FALSE]
            /\ rpc' \in Signalled(
                 [rpc EXCEPT ![p] = IF r_i[p] + 1 < ItemsPerProducer
                                    THEN "call" ELSE "done"], Consumers)
    /\ UNCHANGED <<harness, p3Vars, p4Vars, p1Vars, pipeVars, mpc, popped, r_drained>>

\* consumer_thread calling ring_pop, from the lock to the wait or the return
ring_pop(c) ==
    /\ program \in RingPrograms
    /\ rpc[c] \in {"call", "woken"}
    /\ IF PopMustWait(ring)
       THEN /\ rpc' = [rpc EXCEPT ![c] = "waiting"]
            /\ r_blocked' = [r_blocked EXCEPT ![c] = TRUE]
            /\ UNCHANGED <<ring, r_ret, popped, r_drained>>
       ELSE IF PopRefused(ring)
       THEN /\ r_ret' = [r_ret EXCEPT ![c] = "false"]
            /\ rpc' = [rpc EXCEPT ![c] = "done"]
            /\ UNCHANGED <<ring, r_blocked, popped, r_drained>>
       ELSE /\ ring' = RingRemove(ring)
            /\ popped' = Append(popped, RingFront(ring))
            /\ r_drained' = IF Stopping(ring) THEN r_drained + 1 ELSE r_drained
            /\ r_ret' = [r_ret EXCEPT ![c] = "true"]
            /\ r_blocked' = [r_blocked EXCEPT ![c] = FALSE]
            /\ rpc' \in Signalled(
                 [rpc EXCEPT ![c] = IF RingFront(ring) = POISON_PILL
                                    THEN "done" ELSE "call"], Producers)
    /\ UNCHANGED <<harness, p3Vars, p4Vars, p1Vars, pipeVars, r_i, mpc, pushed>>

\* ring_shutdown, called by any thread at any time
ring_shutdown ==
    /\ program = "ring_api"
    /\ ring' = [ring EXCEPT !.stop_requested = TRUE]
    /\ rpc' = BroadcastAll(rpc)
    /\ UNCHANGED <<harness, p3Vars, p4Vars, p1Vars, pipeVars, r_i, r_ret, r_blocked, mpc, pushed, popped, r_drained>>

\* ring_force_stop, called by any thread at any time
ring_force_stop ==
    /\ program = "ring_api"
    /\ ring' = [ring EXCEPT !.force_stop = TRUE]
    /\ rpc' = BroadcastAll(rpc)
    /\ UNCHANGED <<harness, p3Vars, p4Vars, p1Vars, pipeVars, r_i, r_ret, r_blocked, mpc, pushed, popped, r_drained>>

\* run_benchmark: the joins of the producers
JoinProducers ==
    /\ program = "ring_benchmark"
    /\ mpc = "join_producers"
    /\ \A p \in Producers : rpc[p] = "done"
    /\ mpc' = "shutdown"
    /\ UNCHANGED <<harness, p3Vars, p4Vars, p1Vars, pipeVars, ring, rpc, r_i, r_ret, r_blocked, pushed, popped, r_drained>>

\* run_benchmark: sleep(1), then ring_shutdown(&ring)
BenchShutdown ==
    /\ program = "ring_benchmark"
    /\ mpc = "shutdown"
    /\ ring' = [ring EXCEPT !.stop_requested = TRUE]
    /\ rpc' = BroadcastAll(rpc)
    /\ mpc' = "join_consumers"
    /\ UNCHANGED <<harness, p3Vars, p4Vars, p1Vars, pipeVars, r_i, r_ret, r_blocked, pushed, popped, r_drained>>

\* run_benchmark: the joins of the consumers, then ring_get_stats
JoinConsumers ==
    /\ program = "ring_benchmark"
    /\ mpc = "join_consumers"
    /\ \A c \in Consumers : rpc[c] = "done"
    /\ mpc' = "joined"
    /\ UNCHANGED <<harness, p3Vars, p4Vars, p1Vars, pipeVars, ring, rpc, r_i, r_ret, r_blocked, pushed, popped, r_drained>>

RingNext ==
    \/ \E p \in Producers : ring_push(p)
    \/ \E c \in Consumers : ring_pop(c)
    \/ \E t \in RingThreads : SpuriousWakeup(t)
    \/ ring_shutdown
    \/ ring_force_stop
    \/ JoinProducers
    \/ BenchShutdown
    \/ JoinConsumers

\* ------------------------------------------------------------------------
\* p5_pipeline.cpp
\* ------------------------------------------------------------------------

\* DataItem(): the item a stage declares before it pops into it
DefaultItem == [id |-> -1, raw_value |-> 0, processed_value |-> 0, is_valid |-> FALSE]

NoCall == [op |-> "none", buf |-> 0, item |-> DefaultItem]
Free == <<"free", 0>>

\* the constructor with its two arguments taken in the other order
DataItem_Swapped(id, val) ==
    [id |-> val, raw_value |-> id, processed_value |-> 0, is_valid |-> FALSE]

\* DataItem(int _id, int _val); processed_value is kept in thousandths
DataItem(id, val) ==
    [id |-> id, raw_value |-> val, processed_value |-> 0, is_valid |-> FALSE]

stage1_to_stage2 == buffers[1]
stage2_to_stage3 == buffers[2]
buffer1_mutex == buffer_mutex[1]
buffer2_mutex == buffer_mutex[2]

PipeInit ==
    /\ buffers = <<<<>>, <<>>>>
    /\ buffer_mutex = <<Free, Free>>
    /\ pipeline_shutdown = FALSE
    /\ pc = [t \in BufThreads |-> IF t \in Stages THEN "once" ELSE "idle"]
    /\ call = [t \in BufThreads |-> NoCall]
    /\ tick = [s \in Stages |-> 0]
    /\ ncalls = [c \in Clients |-> 0]
    /\ pipeline_stats = [items_generated |-> 0, items_processed |-> 0,
                         items_filtered |-> 0, barrier_waits |-> 0,
                         total_latency_ms |-> 0]
    /\ barrier = [count |-> 3, waiting |-> 0, generation |-> 0]
    /\ b_arrived = [s \in Stages |-> 0]
    /\ b_returned = [s \in Stages |-> 0]
    /\ b_serial = [s \in Stages |-> 0]
    /\ once_flag = "init"
    /\ sdpc = "idle"
    /\ b_pushed = <<<<>>, <<>>>>
    /\ b_popped = <<<<>>, <<>>>>
    /\ b_drained = 0
    /\ global_rng = [made |-> FALSE, drawn |-> <<>>]
    /\ log_file = [state |-> "null", records |-> [s \in Stages |-> 0]]
    /\ init_runs = 0
    /\ ppc = 0
    /\ sd_calls = 0
    /\ ret = [c \in Clients |-> "none"]
    /\ stats_mutex = Free
    /\ stat_reg = [s \in Stages |-> 0]
    /\ shutdown_mutex = Free
    /\ accumulated_result = 0

\* threads asleep in pthread_cond_timedwait on a condition of buffer b:
\* the pushers on bufferN_not_full, the poppers on bufferN_not_empty
Asleep(b, op) ==
    {t \in BufThreads : pc[t] = "asleep" /\ call[t].buf = b /\ call[t].op = op}

\* pthread_cond_signal on a condition of buffer b
CondSignal(f, b, op) ==
    IF Asleep(b, op) = {} THEN {f}
    ELSE {[f EXCEPT ![w] = "woken"] : w \in Asleep(b, op)}

\* pthread_cond_broadcast on a condition of buffer b
CondBroadcast(f, b, op) ==
    [t \in BufThreads |-> IF t \in Asleep(b, op) THEN "woken" ELSE f[t]]

\* push_to_bufferN waits only when the buffer is over its capacity
BufferFull_OffByOne(q) == Len(q) > BUFFER_SIZE

\* the loop conditions of push_to_bufferN and pop_from_bufferN
BufferFull(q) == Len(q) >= BUFFER_SIZE
BufferEmpty(q) == Len(q) = 0

\* pop_from_bufferN gives up as soon as shutdown is requested
PopGivesUp_OnShutdown(q) == BufferEmpty(q) \/ pipeline_shutdown

\* pop_from_bufferN after its loop: if (stageN_to_stageM.empty()) return false
PopGivesUp(q) == BufferEmpty(q)

\* a stage goes on with its tick whatever its buffer operation returned
AfterCall_Continue(t, op, ok) ==
    IF t \in Clients THEN "idle"
    ELSE IF t = Generator THEN "stat_generated"
    ELSE IF t = Processor THEN (IF op = "pop" THEN "process" ELSE "stat_processed")
    ELSE "filter"

\* where a thread goes on when its buffer operation has returned: a stage
\* breaks out of its loop on false
AfterCall(t, op, ok) ==
    IF t \in Clients THEN "idle"
    ELSE IF ~ok THEN "stopped"
    ELSE IF t = Generator THEN "stat_generated"
    ELSE IF t = Processor THEN (IF op = "pop" THEN "process" ELSE "stat_processed")
    ELSE "filter"

\* a client thread starts push_to_bufferN or pop_from_bufferN
ClientCall(c) ==
    /\ program = "buffer_api"
    /\ c \in api_clients
    /\ pc[c] = "idle"
    /\ ncalls[c] < MaxCalls
    /\ ncalls' = [ncalls EXCEPT ![c] = ncalls[c] + 1]
    /\ pc' = [pc EXCEPT ![c] = "enter"]
    /\ ret' = [ret EXCEPT ![c] = "none"]
    /\ call' = [call EXCEPT ![c] =
                 [op |-> c[1], buf |-> api_buf,
                  item |-> IF c \in Pushers
                           THEN DataItem(c[2] * 100 + ncalls[c], 7)
                           ELSE NoCall.item]]
    /\ UNCHANGED <<harness, p3Vars, p4Vars, p1Vars, ringVars, statVars, initVars, ppc, sd_calls, buffers, buffer_mutex, pipeline_shutdown,
                   tick, pipeline_stats, barrier, b_arrived, b_returned,
                   b_serial, once_flag, sdpc, b_pushed, b_popped, b_drained>>

\* push_to_bufferN: pthread_mutex_lock (or the return of the timed wait with
\* 0), the loop condition and the test of pipeline_shutdown
PushCheck(t) ==
    /\ program \in PipePrograms
    /\ pc[t] \in {"enter", "woken"}
    /\ call[t].op = "push"
    /\ buffer_mutex[call[t].buf] = Free
    /\ IF pipeline_shutdown
       THEN /\ pc' = [pc EXCEPT ![t] = AfterCall(t, "push", FALSE)]
            /\ call' = [call EXCEPT ![t] = NoCall]
            /\ ret' = IF t \in Clients THEN [ret EXCEPT ![t] = "false"] ELSE ret
            /\ UNCHANGED buffer_mutex
       ELSE /\ pc' = [pc EXCEPT ![t] =
                       IF BufferFull(buffers[call[t].buf]) THEN "wait" ELSE "insert"]
            /\ buffer_mutex' = [buffer_mutex EXCEPT ![call[t].buf] = t]
            /\ UNCHANGED <<call, ret>>
    /\ UNCHANGED <<harness, p3Vars, p4Vars, p1Vars, ringVars, statVars, initVars, ppc, sd_calls, buffers, pipeline_shutdown, tick, ncalls,
                   pipeline_stats, barrier, b_arrived, b_returned, b_serial,
                   once_flag, sdpc, b_pushed, b_popped, b_drained>>

\* if (log_file && log_file->is_open()) is not tested
LogSinkUsable_NoCheck == TRUE

\* if (log_file && log_file->is_open()); log_file stays nullptr in a program
\* that never runs init_shared_resources
LogSinkUsable == log_file.state = "open"

\* push_to_bufferN returns with the mutex of its buffer still locked
MutexUnlock_Kept(b) == buffer_mutex

\* pthread_mutex_unlock(&bufferN_mutex)
MutexUnlock(b) == [buffer_mutex EXCEPT ![b] = Free]

\* push_to_bufferN: the insertion, the signal and the unlock; with a usable
\* log sink the record is written next, otherwise the function returns true
PushInsert(t) ==
    /\ program \in PipePrograms
    /\ pc[t] = "insert"
    /\ LET b == call[t].buf IN
       /\ buffers' = [buffers EXCEPT ![b] = Append(buffers[b], call[t].item)]
       /\ b_pushed' = [b_pushed EXCEPT ![b] = Append(b_pushed[b], call[t].item)]
       /\ buffer_mutex' = MutexUnlock(b)
       /\ pc' \in CondSignal([pc EXCEPT ![t] = IF LogSinkUsable THEN "log"
                                                ELSE AfterCall(t, "push", TRUE)],
                              b, "pop")
    /\ call' = [call EXCEPT ![t] = IF t = Processor THEN call[t] ELSE NoCall]
    /\ ret' = IF t \in Clients /\ ~LogSinkUsable
              THEN [ret EXCEPT ![t] = "true"] ELSE ret
    /\ UNCHANGED <<harness, p3Vars, p4Vars, p1Vars, ringVars, statVars, initVars, ppc, sd_calls, pipeline_shutdown,
                   tick, ncalls, pipeline_stats, barrier, b_arrived, b_returned,
                   b_serial, once_flag, sdpc, b_popped, b_drained>>

\* The statement *log_file << ... << std::endl of a stage, which the stage
\* is inside while its position is "log": the "Stage1" or "Stage2" record
\* of push_to_buffer1 / push_to_buffer2, after which the function returns
\* true, or the "Stage3" record of stage_filter_reduce.  The statement is
\* outside every mutex.
LogWrite(s) ==
    /\ program = "pipeline"
    /\ pc[s] = "log"
    /\ log_file' = [log_file EXCEPT !.records[s] = log_file.records[s] + 1]
    /\ pc' = [pc EXCEPT ![s] = IF s = Filter THEN "stat_filtered"
                                ELSE AfterCall(s, "push", TRUE)]
    /\ UNCHANGED <<harness, p3Vars, p4Vars, p1Vars, ringVars, statVars, global_rng, init_runs, coordVars, buffers,
                   buffer_mutex, pipeline_shutdown, call, tick, ncalls,
                   pipeline_stats, barrier, b_arrived, b_returned, b_serial,
                   once_flag, sdpc, b_pushed, b_popped, b_drained>>

\* pop_from_bufferN: pthread_mutex_lock (or the return of the timed wait with
\* 0), the loop condition, and after the loop the rest of the function
PopCheck(t) ==
    /\ program \in PipePrograms
    /\ pc[t] \in {"enter", "woken"}
    /\ call[t].op = "pop"
    /\ buffer_mutex[call[t].buf] = Free
    /\ LET b == call[t].buf IN
       IF BufferEmpty(buffers[b]) /\ ~pipeline_shutdown
       THEN /\ pc' = [pc EXCEPT ![t] = "wait"]
            /\ buffer_mutex' = [buffer_mutex EXCEPT ![b] = t]
            /\ UNCHANGED <<call, buffers, b_popped, b_drained, ret>>
       ELSE IF PopGivesUp(buffers[b])
       THEN /\ pc' = [pc EXCEPT ![t] = AfterCall(t, "pop", FALSE)]
            /\ call' = [call EXCEPT ![t] = NoCall]
            /\ ret' = IF t \in Clients THEN [ret EXCEPT ![t] = "false"] ELSE ret
            /\ UNCHANGED <<buffer_mutex, buffers, b_popped, b_drained>>
       ELSE /\ buffers' = [buffers EXCEPT ![b] = Tail(buffers[b])]
            /\ b_popped' = [b_popped EXCEPT ![b] = Append(b_popped[b], Head(buffers[b]))]
            /\ b_drained' = IF pipeline_shutdown THEN b_drained + 1 ELSE b_drained
            /\ call' = [call EXCEPT ![t] =
                         [op |-> "pop", buf |-> b, item |-> Head(buffers[b])]]
            /\ pc' \in CondSignal([pc EXCEPT ![t] = AfterCall(t, "pop", TRUE)], b, "push")
            /\ ret' = IF t \in Clients THEN [ret EXCEPT ![t] = "true"] ELSE ret
            /\ UNCHANGED buffer_mutex
    /\ UNCHANGED <<harness, p3Vars, p4Vars, p1Vars, ringVars, statVars, initVars, ppc, sd_calls, pipeline_shutdown, tick, ncalls,
                   pipeline_stats, barrier, b_arrived, b_returned, b_serial,
                   once_flag, sdpc, b_pushed>>

\* pthread_cond_timedwait: the mutex is released and the thread sleeps
TimedWait(t) ==
    /\ program \in PipePrograms
    /\ pc[t] = "wait"
    /\ pc' = [pc EXCEPT ![t] = "asleep"]
    /\ buffer_mutex' = [buffer_mutex EXCEPT ![call[t].buf] = Free]
    /\ UNCHANGED <<harness, p3Vars, p4Vars, p1Vars, ringVars, statVars, initVars, coordVars, buffers, pipeline_shutdown, call,
                   tick, ncalls, pipeline_stats, barrier, b_arrived, b_returned,
                   b_serial, once_flag, sdpc, b_pushed, b_popped, b_drained>>

\* pthread_cond_timedwait: a spurious wakeup
BufSpuriousWakeup(t) ==
    /\ program \in PipePrograms
    /\ pc[t] = "asleep"
    /\ pc' = [pc EXCEPT ![t] = "woken"]
    /\ UNCHANGED <<harness, p3Vars, p4Vars, p1Vars, ringVars, statVars, initVars, coordVars, buffers, buffer_mutex, pipeline_shutdown,
                   call, tick, ncalls, pipeline_stats, barrier, b_arrived,
                   b_returned, b_serial, once_flag, sdpc, b_pushed, b_popped, b_drained>>

\* pthread_cond_timedwait: abs_timeout passes while the thread sleeps
DeadlineExpires(t) ==
    /\ program \in PipePrograms
    /\ pc[t] = "asleep"
    /\ pc' = [pc EXCEPT ![t] = "timedout"]
    /\ UNCHANGED <<harness, p3Vars, p4Vars, p1Vars, ringVars, statVars, initVars, coordVars, buffers, buffer_mutex, pipeline_shutdown,
                   call, tick, ncalls, pipeline_stats, barrier, b_arrived,
                   b_returned, b_serial, once_flag, sdpc, b_pushed, b_popped, b_drained>>

\* pthread_cond_timedwait returns ETIMEDOUT with the mutex held again; the
\* function unlocks and returns false
TimedOut(t) ==
    /\ program \in PipePrograms
    /\ pc[t] = "timedout"
    /\ buffer_mutex[call[t].buf] = Free
    /\ pc' = [pc EXCEPT ![t] = AfterCall(t, call[t].op, FALSE)]
    /\ call' = [call EXCEPT ![t] = NoCall]
    /\ ret' = IF t \in Clients THEN [ret EXCEPT ![t] = "false"] ELSE ret
    /\ UNCHANGED <<harness, p3Vars, p4Vars, p1Vars, ringVars, statVars, initVars, ppc, sd_calls, buffers, buffer_mutex, pipeline_shutdown,
                   tick, ncalls, pipeline_stats, barrier, b_arrived, b_returned,
                   b_serial, once_flag, sdpc, b_pushed, b_popped, b_drained>>

\* a call of request_pipeline_shutdown inverts the flag
ShutdownFlagValue_Toggle == ~pipeline_shutdown

\* pipeline_shutdown = true
ShutdownFlagValue == TRUE

\* the calls of request_pipeline_shutdown a run may see, by their number:
\* a first and a second one in the buffer harness, one in the pipeline run
\* with main's defaults, none in the runs that depart from the defaults
ShutdownCalls ==
    IF program = "buffer_api" THEN {1, 2}
    ELSE IF <<num_ticks, log_openable>> = DefaultConfig THEN {1}
    ELSE {}

\* the thread that calls request_pipeline_shutdown
Requester == <<"shutdown", 0>>

\* request_pipeline_shutdown, called by any thread at any time:
\* pthread_mutex_lock(&shutdown_mutex)
ShutdownLock ==
    /\ program \in PipePrograms
    /\ sdpc \in {"idle", "returned"}
    /\ sd_calls + 1 \in ShutdownCalls
    /\ shutdown_mutex = Free
    /\ shutdown_mutex' = Requester
    /\ sdpc' = "locked"
    /\ UNCHANGED <<harness, p3Vars, p4Vars, p1Vars, ringVars, stats_mutex, stat_reg, accumulated_result,
                   initVars, coordVars, buffers, buffer_mutex, pipeline_shutdown,
                   pc, call, tick, ncalls, pipeline_stats, barrier, b_arrived,
                   b_returned, b_serial, once_flag, b_pushed, b_popped, b_drained>>

\* request_pipeline_shutdown: the flag is set under shutdown_mutex and the
\* mutex is unlocked
ShutdownSetFlag ==
    /\ program \in PipePrograms
    /\ sdpc = "locked"
    /\ sd_calls' = sd_calls + 1
    /\ pipeline_shutdown' = ShutdownFlagValue
    /\ shutdown_mutex' = Free
    /\ sdpc' = "broadcast"
    /\ UNCHANGED <<harness, p3Vars, p4Vars, p1Vars, ringVars, stats_mutex, stat_reg, accumulated_result,
                   initVars, ppc, ret, buffers, buffer_mutex, pc, call,
                   tick, ncalls, pipeline_stats, barrier, b_arrived, b_returned,
                   b_serial, once_flag, b_pushed, b_popped, b_drained>>

\* request_pipeline_shutdown: the four broadcasts.  No buffer mutex is held
\* and nothing is read, so a thread that falls asleep between two of them
\* is in the position of one that falls asleep after the last: the four
\* are one step.
ShutdownBroadcast ==
    /\ program \in PipePrograms
    /\ sdpc = "broadcast"
    /\ pc' = CondBroadcast(CondBroadcast(CondBroadcast(CondBroadcast(
               pc, 1, "pop"), 1, "push"), 2, "pop"), 2, "push")
    /\ sdpc' = "returned"
    /\ UNCHANGED <<harness, p3Vars, p4Vars, p1Vars, ringVars, statVars, initVars, coordVars, buffers, buffer_mutex, pipeline_shutdown,
                   call, tick, ncalls, pipeline_stats, barrier, b_arrived,
                   b_returned, b_serial, once_flag, b_pushed, b_popped, b_drained>>

\* Arithmetic of stage_processor in thousandths.  LogTable[n] is
\* 1000 * log(n) for n in 1..11, cut to an integer.
LogTable == <<0, 693, 1098, 1386, 1609, 1791, 1945, 2079, 2197, 2302, 2397>>

\* 1000 * sin(raw_value * 0.01) by x - x^3/6 with x = raw_value / 100
SinMilli(raw_value) == 10 * raw_value - (raw_value * raw_value * raw_value) \div 6000

\* 1000 * cos(id * 0.02) by 1 - x^2/2 with x = id / 50
CosMilli(id) == 1000 - (id * id) \div 5

\* 1000 * temp * 1e-6, temp the sum of sqrt(i + raw_value) for i in 0..999:
\* between 21.08 and 21.41 for the raw values below 11
TempMilli == 21

Fabs(x) == IF x < 0 THEN -x ELSE x

\* stage_processor: item.processed_value as lines 386-400 compute it;
\* lookup_table[k] is sqrt(sin^2 + cos^2) = 1 for every k
processed_value(item) ==
    Fabs(LogTable[item.raw_value + 1]
         + (SinMilli(item.raw_value) * CosMilli(item.id)) \div 1000)
    + TempMilli

\* the filter takes every item whose id is not a multiple of 13
passes_filter_NoPattern(item) ==
    /\ item.processed_value > 100 /\ item.processed_value < 100000
    /\ item.id % 13 # 0

\* the three criteria of stage_filter_reduce, 0.1 and 100.0 in thousandths
passes_filter(item) ==
    /\ item.processed_value > 100 /\ item.processed_value < 100000
    /\ item.id % 13 # 0
    /\ (item.raw_value % 3 = 0 \/ item.raw_value % 7 = 0)

\* pthread_once lets a caller that does not run the initialiser go on as
\* soon as the initialiser has been entered
OnceDone_NoWait == once_flag # "init"

\* pthread_once returns to a caller that does not run the initialiser only
\* when the initialiser has returned
OnceDone == once_flag = "done"

\* pthread_once(&once_flag, init_shared_resources): the first caller
OnceEnter(s) ==
    /\ program = "pipeline"
    /\ pc[s] = "once"
    /\ once_flag = "init"
    /\ once_flag' = "running"
    /\ pc' = [pc EXCEPT ![s] = "init_shared_resources"]
    /\ UNCHANGED <<harness, p3Vars, p4Vars, p1Vars, ringVars, statVars, initVars, coordVars, buffers, buffer_mutex, pipeline_shutdown,
                   call, tick, ncalls, pipeline_stats, barrier, b_arrived,
                   b_returned, b_serial, sdpc, b_pushed, b_popped, b_drained>>

\* init_shared_resources runs to its end: the log file is opened (or the
\* open fails and only a message is printed), the engine is made with seed
\* 42 and no draw taken yet, and lookup_table is filled
init_shared_resources(s) ==
    /\ program = "pipeline"
    /\ pc[s] = "init_shared_resources"
    /\ init_runs' = init_runs + 1
    /\ log_file' = [log_file EXCEPT !.state = IF log_openable THEN "open" ELSE "failed"]
    /\ global_rng' = [made |-> TRUE, drawn |-> <<>>]
    /\ once_flag' = "done"
    /\ pc' = [pc EXCEPT ![s] = "loop"]
    /\ UNCHANGED <<harness, p3Vars, p4Vars, p1Vars, ringVars, statVars, coordVars, buffers, buffer_mutex, pipeline_shutdown,
                   call, tick, ncalls, pipeline_stats, barrier, b_arrived,
                   b_returned, b_serial, sdpc, b_pushed, b_popped, b_drained>>

\* pthread_once returns to a caller that did not run the initialiser
OncePass(s) ==
    /\ program = "pipeline"
    /\ pc[s] = "once"
    /\ OnceDone
    /\ pc' = [pc EXCEPT ![s] = "loop"]
    /\ UNCHANGED <<harness, p3Vars, p4Vars, p1Vars, ringVars, statVars, initVars, coordVars, buffers, buffer_mutex, pipeline_shutdown,
                   call, tick, ncalls, pipeline_stats, barrier, b_arrived,
                   b_returned, b_serial, once_flag, sdpc, b_pushed, b_popped, b_drained>>

\* the head of a stage's for loop and the start of the tick's first buffer
\* operation: the generator draws a value and makes the item.  Only the
\* generator uses global_rng, so the engine seeded with 42 gives its draws
\* one fixed sequence of outputs; global_rng.drawn is the part of that
\* sequence made so far.
TickStart(s) ==
    /\ program = "pipeline"
    /\ pc[s] = "loop"
    /\ IF tick[s] < DEFAULT_TICKS
       THEN /\ pc' = [pc EXCEPT ![s] = "enter"]
            /\ IF s = Generator
               THEN \E raw_value \in RawValues :
                      /\ global_rng' = [global_rng EXCEPT
                                          !.drawn = Append(global_rng.drawn, raw_value)]
                      /\ call' = [call EXCEPT ![s] =
                                    [op |-> "push", buf |-> 1,
                                     item |-> DataItem(tick[s], raw_value)]]
               ELSE /\ call' = [call EXCEPT ![s] =
                                  [op |-> "pop", buf |-> IF s = Processor THEN 1 ELSE 2,
                                   item |-> NoCall.item]]
                    /\ UNCHANGED global_rng
       ELSE /\ pc' = [pc EXCEPT ![s] = "drained"]
            /\ UNCHANGED <<call, global_rng>>
    /\ UNCHANGED <<harness, p3Vars, p4Vars, p1Vars, ringVars, statVars, log_file, init_runs, coordVars, buffers, buffer_mutex, pipeline_shutdown,
                   tick, ncalls, pipeline_stats, barrier, b_arrived, b_returned,
                   b_serial, once_flag, sdpc, b_pushed, b_popped, b_drained>>

\* stage_processor: the computation on the popped item and the call of
\* push_to_buffer2
Process ==
    /\ program = "pipeline"
    /\ pc[Processor] = "process"
    /\ pc' = [pc EXCEPT ![Processor] = "enter"]
    /\ call' = [call EXCEPT ![Processor] =
                 [op |-> "push", buf |-> 2,
                  item |-> [call[Processor].item EXCEPT
                              !.processed_value = processed_value(call[Processor].item)]]]
    /\ UNCHANGED <<harness, p3Vars, p4Vars, p1Vars, ringVars, statVars, initVars, coordVars, buffers, buffer_mutex, pipeline_shutdown,
                   tick, ncalls, pipeline_stats, barrier, b_arrived, b_returned,
                   b_serial, once_flag, sdpc, b_pushed, b_popped, b_drained>>

\* pthread_mutex_lock(&stats_mutex) takes the mutex whoever holds it
StatsLockable_Always == TRUE

\* pthread_mutex_lock(&pipeline_stats.stats_mutex) returns when the mutex is
\* free
StatsLockable == stats_mutex = Free

\* the field of pipeline_stats a stage is about to update, by its position
StatField ==
    [stat_generated |-> "items_generated", stat_processed |-> "items_processed",
     add_latency |-> "total_latency_ms", stat_filtered |-> "items_filtered",
     stat_barrier |-> "barrier_waits"]

\* the positions of a stage inside a stats_mutex section
StatLocked ==
    {"stat_generated_locked", "stat_processed_locked", "add_latency_locked",
     "stat_filtered_locked", "stat_barrier_locked"}

\* pthread_mutex_lock(&pipeline_stats.stats_mutex) and the load of the
\* field that the statement under the mutex increments
StatsLock(s) ==
    /\ program = "pipeline"
    /\ pc[s] \in {"stat_generated", "stat_processed", "add_latency",
                  "stat_filtered", "stat_barrier"}
    /\ StatsLockable
    /\ stats_mutex' = s
    /\ stat_reg' = [stat_reg EXCEPT ![s] = pipeline_stats[StatField[pc[s]]]]
    /\ pc' = [pc EXCEPT ![s] =
                CASE pc[s] = "stat_generated" -> "stat_generated_locked"
                  [] pc[s] = "stat_processed" -> "stat_processed_locked"
                  [] pc[s] = "add_latency"    -> "add_latency_locked"
                  [] pc[s] = "stat_filtered"  -> "stat_filtered_locked"
                  [] pc[s] = "stat_barrier"   -> "stat_barrier_locked"]
    /\ UNCHANGED <<harness, p3Vars, p4Vars, p1Vars, ringVars, initVars, coordVars, shutdown_mutex,
                   accumulated_result, buffers, buffer_mutex, pipeline_shutdown,
                   call, tick, ncalls, pipeline_stats, barrier, b_arrived,
                   b_returned, b_serial, once_flag, sdpc, b_pushed, b_popped,
                   b_drained>>

\* stage_generator: the store of pipeline_stats.items_generated++ and
\* pthread_mutex_unlock
StatGenerated ==
    /\ program = "pipeline"
    /\ pc[Generator] = "stat_generated_locked"
    /\ pipeline_stats' = [pipeline_stats EXCEPT
                            !.items_generated = stat_reg[Generator] + 1]
    /\ stats_mutex' = Free
    /\ stat_reg' = [stat_reg EXCEPT ![Generator] = 0]
    /\ pc' = [pc EXCEPT ![Generator] = "stat_barrier"]
    /\ UNCHANGED <<harness, p3Vars, p4Vars, p1Vars, ringVars, initVars, coordVars, shutdown_mutex,
                   accumulated_result, buffers, buffer_mutex, pipeline_shutdown,
                   call, tick, ncalls, barrier, b_arrived, b_returned,
                   b_serial, once_flag, sdpc, b_pushed, b_popped, b_drained>>

\* stage_processor: the store of pipeline_stats.items_processed++ and
\* pthread_mutex_unlock
StatProcessed ==
    /\ program = "pipeline"
    /\ pc[Processor] = "stat_processed_locked"
    /\ pipeline_stats' = [pipeline_stats EXCEPT
                            !.items_processed = stat_reg[Processor] + 1]
    /\ stats_mutex' = Free
    /\ stat_reg' = [stat_reg EXCEPT ![Processor] = 0]
    /\ pc' = [pc EXCEPT ![Processor] = "stat_barrier"]
    /\ call' = [call EXCEPT ![Processor] = NoCall]
    /\ UNCHANGED <<harness, p3Vars, p4Vars, p1Vars, ringVars, initVars, coordVars, shutdown_mutex,
                   accumulated_result, buffers, buffer_mutex, pipeline_shutdown,
                   tick, ncalls, barrier, b_arrived, b_returned,
                   b_serial, once_flag, sdpc, b_pushed, b_popped, b_drained>>

\* stage_filter_reduce: the filter; an item that passes gets is_valid = true
\* and its processed_value is added to accumulated_result, any other item
\* gets is_valid = false
FilterReduce ==
    /\ program = "pipeline"
    /\ pc[Filter] = "filter"
    /\ LET item == call[Filter].item IN
       IF passes_filter(item)
       THEN /\ call' = [call EXCEPT ![Filter].item.is_valid = TRUE]
            /\ accumulated_result' = accumulated_result + item.processed_value
            /\ pc' = [pc EXCEPT ![Filter] = "add_latency"]
       ELSE /\ call' = [call EXCEPT ![Filter].item.is_valid = FALSE]
            /\ accumulated_result' = accumulated_result
            /\ pc' = [pc EXCEPT ![Filter] = "stat_barrier"]
    /\ UNCHANGED <<harness, p3Vars, p4Vars, p1Vars, ringVars, initVars, coordVars, stats_mutex, stat_reg,
                   shutdown_mutex, buffers, buffer_mutex, pipeline_shutdown,
                   tick, ncalls, pipeline_stats, barrier, b_arrived, b_returned,
                   b_serial, once_flag, sdpc, b_pushed, b_popped, b_drained>>

\* now - item.timestamp in milliseconds.  The model does not measure time:
\* every latency is one unit, so total_latency_ms is the number of
\* latencies added to it.
latency_ms(item) == 1

\* PipelineStats::add_latency: the store of total_latency_ms += latency_ms
\* and pthread_mutex_unlock; with a usable log sink the "Stage3" record of
\* the item is written next
AddLatency ==
    /\ program = "pipeline"
    /\ pc[Filter] = "add_latency_locked"
    /\ pipeline_stats' = [pipeline_stats EXCEPT
                            !.total_latency_ms =
                               stat_reg[Filter] + latency_ms(call[Filter].item)]
    /\ stats_mutex' = Free
    /\ stat_reg' = [stat_reg EXCEPT ![Filter] = 0]
    /\ pc' = [pc EXCEPT ![Filter] = IF LogSinkUsable THEN "log" ELSE "stat_filtered"]
    /\ UNCHANGED <<harness, p3Vars, p4Vars, p1Vars, ringVars, initVars, coordVars,
                   shutdown_mutex, accumulated_result, buffers, buffer_mutex,
                   pipeline_shutdown, call, tick, ncalls, barrier, b_arrived,
                   b_returned, b_serial, once_flag, sdpc, b_pushed, b_popped,
                   b_drained>>

\* stage_filter_reduce, if (item.is_valid): the store of
\* pipeline_stats.items_filtered++ and pthread_mutex_unlock
StatFiltered ==
    /\ program = "pipeline"
    /\ pc[Filter] = "stat_filtered_locked"
    /\ pipeline_stats' = [pipeline_stats EXCEPT
                            !.items_filtered = stat_reg[Filter] + 1]
    /\ stats_mutex' = Free
    /\ stat_reg' = [stat_reg EXCEPT ![Filter] = 0]
    /\ pc' = [pc EXCEPT ![Filter] = "stat_barrier"]
    /\ UNCHANGED <<harness, p3Vars, p4Vars, p1Vars, ringVars, initVars, coordVars, shutdown_mutex,
                   accumulated_result, buffers, buffer_mutex, pipeline_shutdown,
                   call, tick, ncalls, barrier, b_arrived, b_returned,
                   b_serial, once_flag, sdpc, b_pushed, b_popped, b_drained>>

\* every stage: the store of pipeline_stats.barrier_waits++ and
\* pthread_mutex_unlock
StatBarrier(s) ==
    /\ program = "pipeline"
    /\ pc[s] = "stat_barrier_locked"
    /\ pipeline_stats' = [pipeline_stats EXCEPT
                            !.barrier_waits = stat_reg[s] + 1]
    /\ stats_mutex' = Free
    /\ stat_reg' = [stat_reg EXCEPT ![s] = 0]
    /\ pc' = [pc EXCEPT ![s] = "barrier"]
    /\ call' = [call EXCEPT ![s] = NoCall]
    /\ UNCHANGED <<harness, p3Vars, p4Vars, p1Vars, ringVars, initVars, coordVars, shutdown_mutex,
                   accumulated_result, buffers, buffer_mutex, pipeline_shutdown,
                   tick, ncalls, barrier, b_arrived, b_returned,
                   b_serial, once_flag, sdpc, b_pushed, b_popped, b_drained>>

\* the barrier waits for a party more than there are stages
BarrierParties_Four == barrier.count + 1

\* the party count follows the stages that are still in their loops
BarrierParties_Live == barrier.count - Cardinality({s \in Stages : pc[s] = "stopped"})

\* the barrier is made for two parties
BarrierParties_Two == barrier.count - 1

\* the barrier is made for one party
BarrierParties_One == barrier.count - 2

\* the party count run_pipeline_benchmark gives pthread_barrier_init
BarrierParties == barrier.count

\* pthread_barrier_wait(&pipeline_barrier): the arrival.  The arrival that
\* completes the cycle releases the blocked threads and returns at once with
\* PTHREAD_BARRIER_SERIAL_THREAD; the for loop then does tick++.
BarrierArrive(s) ==
    /\ program = "pipeline"
    /\ pc[s] = "barrier"
    /\ b_arrived' = [b_arrived EXCEPT ![s] = b_arrived[s] + 1]
    /\ IF barrier.waiting + 1 = BarrierParties
       THEN /\ barrier' = [barrier EXCEPT !.waiting = 0,
                                          !.generation = barrier.generation + 1]
            /\ pc' = [t \in BufThreads |->
                        IF t = s THEN "loop"
                        ELSE IF pc[t] = "blocked" THEN "released" ELSE pc[t]]
            /\ b_serial' = [b_serial EXCEPT ![s] = b_serial[s] + 1]
            /\ b_returned' = [b_returned EXCEPT ![s] = b_returned[s] + 1]
            /\ tick' = [tick EXCEPT ![s] = tick[s] + 1]
       ELSE /\ barrier' = [barrier EXCEPT !.waiting = barrier.waiting + 1]
            /\ pc' = [pc EXCEPT ![s] = "blocked"]
            /\ UNCHANGED <<b_serial, b_returned, tick>>
    /\ UNCHANGED <<harness, p3Vars, p4Vars, p1Vars, ringVars, statVars, initVars, coordVars, buffers, buffer_mutex, pipeline_shutdown,
                   call, ncalls, pipeline_stats, once_flag, sdpc, b_pushed,
                   b_popped, b_drained>>

\* pthread_barrier_wait returns 0 to a released thread; tick++
BarrierReturn(s) ==
    /\ program = "pipeline"
    /\ pc[s] = "released"
    /\ b_returned' = [b_returned EXCEPT ![s] = b_returned[s] + 1]
    /\ tick' = [tick EXCEPT ![s] = tick[s] + 1]
    /\ pc' = [pc EXCEPT ![s] = "loop"]
    /\ UNCHANGED <<harness, p3Vars, p4Vars, p1Vars, ringVars, statVars, initVars, coordVars, buffers, buffer_mutex, pipeline_shutdown,
                   call, ncalls, pipeline_stats, barrier, b_arrived, b_serial,
                   once_flag, sdpc, b_pushed, b_popped, b_drained>>

\* run_pipeline_benchmark: pthread_join of the generator, then of the
\* processor, then of the filter thread; a join returns when the stage
\* function has returned
JoinStage ==
    /\ program = "pipeline"
    /\ ppc < 3
    /\ pc[<<"stage", ppc + 1>>] \in {"drained", "stopped"}
    /\ ppc' = ppc + 1
    /\ UNCHANGED <<harness, p3Vars, p4Vars, p1Vars, ringVars, statVars, initVars, sd_calls, ret, buffers, buffer_mutex,
                   pipeline_shutdown, pc, call, tick, ncalls, pipeline_stats,
                   barrier, b_arrived, b_returned, b_serial, once_flag, sdpc,
                   b_pushed, b_popped, b_drained>>

\* run_pipeline_benchmark after the three joins: the reads of
\* pipeline_stats for the report, the last of them in print_final_stats
\* under stats_mutex
ReadStats ==
    /\ program = "pipeline"
    /\ ppc = 3
    /\ stats_mutex = Free
    /\ ppc' = 4
    /\ UNCHANGED <<harness, p3Vars, p4Vars, p1Vars, ringVars, statVars, initVars, sd_calls, ret, buffers, buffer_mutex,
                   pipeline_shutdown, pc, call, tick, ncalls, pipeline_stats,
                   barrier, b_arrived, b_returned, b_serial, once_flag, sdpc,
                   b_pushed, b_popped, b_drained>>

StageNext ==
    \/ \E s \in Stages : OnceEnter(s)
    \/ \E s \in Stages : init_shared_resources(s)
    \/ \E s \in Stages : OncePass(s)
    \/ \E s \in Stages : TickStart(s)
    \/ Process
    \/ StatGenerated
    \/ StatProcessed
    \/ FilterReduce
    \/ AddLatency
    \/ StatFiltered
    \/ \E s \in Stages : StatsLock(s)
    \/ \E s \in Stages : StatBarrier(s)
    \/ \E s \in Stages : BarrierArrive(s)
    \/ \E s \in Stages : BarrierReturn(s)
    \/ \E s \in Stages : LogWrite(s)
    \/ JoinStage
    \/ ReadStats

\* the steps of the four buffer functions
BufferOps ==
    \/ \E t \in BufThreads : PushCheck(t)
    \/ \E t \in BufThreads : PushInsert(t)
    \/ \E t \in BufThreads : PopCheck(t)
    \/ \E t \in BufThreads : TimedWait(t)
    \/ \E t \in BufThreads : BufSpuriousWakeup(t)
    \/ \E t \in BufThreads : DeadlineExpires(t)
    \/ \E t \in BufThreads : TimedOut(t)

BufferNext ==
    \/ \E c \in Clients : ClientCall(c)
    \/ BufferOps
    \/ ShutdownLock
    \/ ShutdownSetFlag
    \/ ShutdownBroadcast

\* ------------------------------------------------------------------------
\* p1_counter.cpp
\* ------------------------------------------------------------------------

\* benchmark_strategy before its pthread_create loop; final_result is not
\* yet computed
CounterInit ==
    /\ global_counter = 0
    /\ mtx = Free
    /\ local_counters = [w \in Workers |-> 0]
    /\ atomic_counter = 0
    /\ wpc = [w \in Workers |-> "loop"]
    /\ w_i = [w \in Workers |-> 0]
    /\ w_reg = [w \in Workers |-> 0]
    /\ joined = 0
    /\ final_result = [computed |-> FALSE, value |-> 0]

\* main: expected_total = (long)num_threads * iterations
expected_total == Cardinality(Workers) * Iterations

\* the for loop of a worker runs while i <= a->iters
LoopNext_OneMore(w) == IF w_i[w] + 1 <= Iterations THEN "loop" ELSE "returned"

\* the for loop of a worker: i < a->iters, and i++ after the body
LoopNext(w) == IF w_i[w] + 1 < Iterations THEN "loop" ELSE "returned"

\* worker_naive, (*a->global)++: the load.  The increment is a load, an
\* add and a store of a long that other threads load and store without
\* any synchronisation; what the program then computes is any of the
\* results the interleavings of these loads and stores give.  (A build
\* that keeps the sum in a register and stores it once after the loop
\* gives results that are among them.)
NaiveLoad(w) ==
    /\ program = "counter" /\ worker_func = "worker_naive"
    /\ wpc[w] = "loop"
    /\ w_reg' = [w_reg EXCEPT ![w] = global_counter]
    /\ wpc' = [wpc EXCEPT ![w] = "store"]
    /\ UNCHANGED <<harness, p3Vars, p4Vars, ringVars, pipeVars, worker_func, global_counter, mtx,
                   local_counters, atomic_counter, w_i, joined, final_result>>

\* worker_naive, (*a->global)++: the store, and i++
NaiveStore(w) ==
    /\ program = "counter" /\ worker_func = "worker_naive"
    /\ wpc[w] = "store"
    /\ global_counter' = w_reg[w] + 1
    /\ w_reg' = [w_reg EXCEPT ![w] = 0]
    /\ w_i' = [w_i EXCEPT ![w] = w_i[w] + 1]
    /\ wpc' = [wpc EXCEPT ![w] = LoopNext(w)]
    /\ UNCHANGED <<harness, p3Vars, p4Vars, ringVars, pipeVars, worker_func, mtx, local_counters,
                   atomic_counter, joined, final_result>>

\* pthread_mutex_lock(a->mtx) takes the mutex whoever holds it
MtxLockable_Always == TRUE

\* pthread_mutex_lock(a->mtx) returns when the mutex is free
MtxLockable == mtx = Free

\* worker_mutex: pthread_mutex_lock and the load of (*a->global)++
MutexLock(w) ==
    /\ program = "counter" /\ worker_func = "worker_mutex"
    /\ wpc[w] = "loop"
    /\ MtxLockable
    /\ mtx' = <<"worker", w>>
    /\ w_reg' = [w_reg EXCEPT ![w] = global_counter]
    /\ wpc' = [wpc EXCEPT ![w] = "locked"]
    /\ UNCHANGED <<harness, p3Vars, p4Vars, ringVars, pipeVars, worker_func, global_counter,
                   local_counters, atomic_counter, w_i, joined, final_result>>

\* worker_mutex: the store of (*a->global)++, pthread_mutex_unlock, i++
MutexUnlockCounter(w) ==
    /\ program = "counter" /\ worker_func = "worker_mutex"
    /\ wpc[w] = "locked"
    /\ global_counter' = w_reg[w] + 1
    /\ mtx' = Free
    /\ w_reg' = [w_reg EXCEPT ![w] = 0]
    /\ w_i' = [w_i EXCEPT ![w] = w_i[w] + 1]
    /\ wpc' = [wpc EXCEPT ![w] = LoopNext(w)]
    /\ UNCHANGED <<harness, p3Vars, p4Vars, ringVars, pipeVars, worker_func, local_counters,
                   atomic_counter, joined, final_result>>

\* benchmark_strategy: args[i].local_counter = &local_counters[i]
local_counter(w) == w

\* worker_sharded, (*a->local_counter)++: the load
ShardedLoad(w) ==
    /\ program = "counter" /\ worker_func = "worker_sharded"
    /\ wpc[w] = "loop"
    /\ w_reg' = [w_reg EXCEPT ![w] = local_counters[local_counter(w)]]
    /\ wpc' = [wpc EXCEPT ![w] = "store"]
    /\ UNCHANGED <<harness, p3Vars, p4Vars, ringVars, pipeVars, worker_func, global_counter, mtx,
                   local_counters, atomic_counter, w_i, joined, final_result>>

\* worker_sharded, (*a->local_counter)++: the store, and i++
ShardedStore(w) ==
    /\ program = "counter" /\ worker_func = "worker_sharded"
    /\ wpc[w] = "store"
    /\ local_counters' = [local_counters EXCEPT ![local_counter(w)] = w_reg[w] + 1]
    /\ w_reg' = [w_reg EXCEPT ![w] = 0]
    /\ w_i' = [w_i EXCEPT ![w] = w_i[w] + 1]
    /\ wpc' = [wpc EXCEPT ![w] = LoopNext(w)]
    /\ UNCHANGED <<harness, p3Vars, p4Vars, ringVars, pipeVars, worker_func, global_counter, mtx,
                   atomic_counter, joined, final_result>>

\* worker_atomic: a->atomic_counter->fetch_add(1, memory_order_relaxed), one
\* indivisible read-modify-write, and i++
AtomicFetchAdd(w) ==
    /\ program = "counter" /\ worker_func = "worker_atomic"
    /\ wpc[w] = "loop"
    /\ atomic_counter' = atomic_counter + 1
    /\ w_i' = [w_i EXCEPT ![w] = w_i[w] + 1]
    /\ wpc' = [wpc EXCEPT ![w] = LoopNext(w)]
    /\ UNCHANGED <<harness, p3Vars, p4Vars, ringVars, pipeVars, worker_func, global_counter, mtx,
                   local_counters, w_reg, joined, final_result>>

\* benchmark_strategy: pthread_join(threads[i]) for i = 0, 1, ...
JoinWorker ==
    /\ program = "counter"
    /\ joined \in Workers
    /\ wpc[joined] = "returned"
    /\ joined' = joined + 1
    /\ UNCHANGED <<harness, p3Vars, p4Vars, ringVars, pipeVars, worker_func, global_counter, mtx,
                   local_counters, atomic_counter, wpc, w_i, w_reg, final_result>>

RECURSIVE SumCounters(_, _)
\* for (long local : local_counters) final_result += local
SumCounters(f, S) ==
    IF S = {} THEN 0
    ELSE LET w == CHOOSE x \in S : TRUE IN f[w] + SumCounters(f, S \ {w})

\* benchmark_strategy after the joins: final_result by the strategy
ComputeFinalResult ==
    /\ program = "counter"
    /\ joined = Cardinality(Workers)
    /\ ~final_result.computed
    /\ final_result' =
          [computed |-> TRUE,
           value |-> IF worker_func = "worker_sharded"
                     THEN SumCounters(local_counters, Workers)
                     ELSE IF worker_func = "worker_atomic" THEN atomic_counter
                     ELSE global_counter]
    /\ UNCHANGED <<harness, p3Vars, p4Vars, ringVars, pipeVars, worker_func, global_counter, mtx,
                   local_counters, atomic_counter, wpc, w_i, w_reg, joined>>

CounterNext ==
    \/ \E w \in Workers : NaiveLoad(w)
    \/ \E w \in Workers : NaiveStore(w)
    \/ \E w \in Workers : MutexLock(w)
    \/ \E w \in Workers : MutexUnlockCounter(w)
    \/ \E w \in Workers : ShardedLoad(w)
    \/ \E w \in Workers : ShardedStore(w)
    \/ \E w \in Workers : AtomicFetchAdd(w)
    \/ JoinWorker
    \/ ComputeFinalResult

\* ------------------------------------------------------------------------
\* p4_deadlock.cpp
\* ------------------------------------------------------------------------

\* shared_resource_A and shared_resource_B are written only between the
\* locks and unlocks below and read by no condition of the program; the
\* model leaves their values out.  The counters of global_stats are taken
\* from the start of the part that runs.
LockInit ==
    /\ mutexes = [A |-> Free, B |-> Free]
    /\ global_stats = [successful_operations |-> 0, deadlock_attempts |-> 0,
                       backoff_retries |-> 0, timeouts |-> 0]
    /\ tpc = [t \in AllLockThreads |-> "lock_first"]
    /\ t_i = [t \in AllLockThreads |-> 0]
    /\ retry_count = [t \in AllLockThreads |-> 0]
    /\ failed_trylocks = 0
    /\ threads_joined = 0

\* the value of a mutex that thread t holds
Holder(t) == <<"thread", t>>

mutex_A == mutexes.A
mutex_B == mutexes.B

\* the threads the part creates
LockThreads == 1..num_threads

\* the thread counts of the runs: demonstrate_deadlock makes two threads,
\* the benchmarks make num_threads of them
ThreadCounts ==
    IF program = "ordered" THEN {1, 2, 3}
    ELSE IF program = "trylock" THEN {2}
    ELSE {2}

\* every odd thread takes mutex_B first, in each part of the program
FirstMutex_Alternating(t) == IF t % 2 = 0 THEN "A" ELSE "B"

\* the mutex a thread locks first: thread_deadlock_1 (id 1) mutex_A and
\* thread_deadlock_2 (id 2) mutex_B, thread_ordered_lock mutex_A,
\* thread_trylock_backoff mutex_A if thread_id % 2 == 0 and mutex_B if not
FirstMutex(t) ==
    IF program = "deadlock_demo" THEN (IF t = 1 THEN "A" ELSE "B")
    ELSE IF program = "ordered" THEN "A"
    ELSE (IF t % 2 = 0 THEN "A" ELSE "B")

SecondMutex(t) == IF FirstMutex(t) = "A" THEN "B" ELSE "A"

\* the iterations of the thread function of the part
LockIterations ==
    IF program = "deadlock_demo" THEN DeadlockIterations
    ELSE IF program = "ordered" THEN OrderedIterations
    ELSE BackoffIterations

\* the for loop of a thread function: i++ and the test of i
NextIteration(t) == IF t_i[t] + 1 < LockIterations THEN "lock_first" ELSE "returned"

\* pthread_mutex_lock(first_mutex); the thread holds no mutex
LockFirst(t) ==
    /\ program \in LockPrograms
    /\ t \in LockThreads
    /\ tpc[t] = "lock_first"
    /\ mutexes[FirstMutex(t)] = Free
    /\ mutexes' = [mutexes EXCEPT ![FirstMutex(t)] = Holder(t)]
    /\ tpc' = [tpc EXCEPT ![t] = "second"]
    /\ UNCHANGED <<harness, p3Vars, ringVars, pipeVars, p1Vars, num_threads, global_stats,
                   t_i, retry_count, failed_trylocks, threads_joined>>

\* a pthread_mutex_lock of the second mutex takes it whoever holds it
SecondLockable_Always(t) == TRUE

\* pthread_mutex_lock of the second mutex returns when the mutex is free
SecondLockable(t) == mutexes[SecondMutex(t)] = Free

\* every thread function locks its second mutex with pthread_mutex_lock
BlocksOnSecond_Always == TRUE

\* thread_deadlock_1, thread_deadlock_2 and thread_ordered_lock lock the
\* second mutex with pthread_mutex_lock, thread_trylock_backoff tries it
\* with pthread_mutex_trylock
BlocksOnSecond == program \in {"deadlock_demo", "ordered"}

\* pthread_mutex_lock(second mutex) while the first is held
LockSecond(t) ==
    /\ program \in LockPrograms
    /\ BlocksOnSecond
    /\ t \in LockThreads
    /\ tpc[t] = "second"
    /\ SecondLockable(t)
    /\ mutexes' = [mutexes EXCEPT ![SecondMutex(t)] = Holder(t)]
    /\ tpc' = [tpc EXCEPT ![t] = "unlock_second"]
    /\ UNCHANGED <<harness, p3Vars, ringVars, pipeVars, p1Vars, num_threads, global_stats,
                   t_i, retry_count, failed_trylocks, threads_joined>>

\* thread_trylock_backoff: pthread_mutex_trylock(second_mutex); on failure
\* pthread_mutex_unlock(first_mutex) and retry_count++
TrylockSecond(t) ==
    /\ program \in LockPrograms
    /\ ~BlocksOnSecond
    /\ t \in LockThreads
    /\ tpc[t] = "second"
    /\ IF mutexes[SecondMutex(t)] = Free
       THEN /\ mutexes' = [mutexes EXCEPT ![SecondMutex(t)] = Holder(t)]
            /\ tpc' = [tpc EXCEPT ![t] = "unlock_second"]
            /\ UNCHANGED <<retry_count, failed_trylocks>>
       ELSE /\ mutexes' = [mutexes EXCEPT ![FirstMutex(t)] = Free]
            /\ retry_count' = [retry_count EXCEPT ![t] = retry_count[t] + 1]
            /\ failed_trylocks' = failed_trylocks + 1
            /\ tpc' = [tpc EXCEPT ![t] = "backoff"]
    /\ UNCHANGED <<harness, p3Vars, ringVars, pipeVars, p1Vars, num_threads, global_stats,
                   t_i, threads_joined>>

\* the work on the shared resources under both mutexes, and
\* pthread_mutex_unlock of the second mutex
UnlockSecond(t) ==
    /\ program \in LockPrograms
    /\ t \in LockThreads
    /\ tpc[t] = "unlock_second"
    /\ mutexes' = [mutexes EXCEPT ![SecondMutex(t)] = Free]
    /\ tpc' = [tpc EXCEPT ![t] = "unlock_first"]
    /\ UNCHANGED <<harness, p3Vars, ringVars, pipeVars, p1Vars, num_threads, global_stats,
                   t_i, retry_count, failed_trylocks, threads_joined>>

\* pthread_mutex_unlock of the first mutex
UnlockFirst(t) ==
    /\ program \in LockPrograms
    /\ t \in LockThreads
    /\ tpc[t] = "unlock_first"
    /\ mutexes' = [mutexes EXCEPT ![FirstMutex(t)] = Free]
    /\ tpc' = [tpc EXCEPT ![t] = "success"]
    /\ UNCHANGED <<harness, p3Vars, ringVars, pipeVars, p1Vars, num_threads, global_stats,
                   t_i, retry_count, failed_trylocks, threads_joined>>

\* global_stats.increment_success() under stats_mutex, with no other mutex
\* held; the iteration ends
increment_success(t) ==
    /\ program \in LockPrograms
    /\ t \in LockThreads
    /\ tpc[t] = "success"
    /\ global_stats' = [global_stats EXCEPT
                          !.successful_operations = global_stats.successful_operations + 1]
    /\ t_i' = [t_i EXCEPT ![t] = t_i[t] + 1]
    /\ retry_count' = [retry_count EXCEPT ![t] = 0]
    /\ tpc' = [tpc EXCEPT ![t] = NextIteration(t)]
    /\ UNCHANGED <<harness, p3Vars, ringVars, pipeVars, p1Vars, num_threads, mutexes,
                   failed_trylocks, threads_joined>>

\* thread_trylock_backoff: global_stats.increment_backoff(), the sleep, and
\* the test of the while loop
increment_backoff(t) ==
    /\ program \in LockPrograms
    /\ t \in LockThreads
    /\ tpc[t] = "backoff"
    /\ global_stats' = [global_stats EXCEPT
                          !.backoff_retries = global_stats.backoff_retries + 1]
    /\ tpc' = [tpc EXCEPT ![t] = IF retry_count[t] < MaxRetries
                                 THEN "lock_first" ELSE "timeout"]
    /\ UNCHANGED <<harness, p3Vars, ringVars, pipeVars, p1Vars, num_threads, mutexes,
                   t_i, retry_count, failed_trylocks, threads_joined>>

\* thread_trylock_backoff, if (!operation_complete):
\* global_stats.increment_timeout(); the iteration ends
increment_timeout(t) ==
    /\ program \in LockPrograms
    /\ t \in LockThreads
    /\ tpc[t] = "timeout"
    /\ global_stats' = [global_stats EXCEPT !.timeouts = global_stats.timeouts + 1]
    /\ t_i' = [t_i EXCEPT ![t] = t_i[t] + 1]
    /\ retry_count' = [retry_count EXCEPT ![t] = 0]
    /\ tpc' = [tpc EXCEPT ![t] = NextIteration(t)]
    /\ UNCHANGED <<harness, p3Vars, ringVars, pipeVars, p1Vars, num_threads, mutexes,
                   failed_trylocks, threads_joined>>

\* the pthread_join calls of the part, in the order of creation
JoinThread ==
    /\ program \in LockPrograms
    /\ threads_joined < num_threads
    /\ tpc[threads_joined + 1] = "returned"
    /\ threads_joined' = threads_joined + 1
    /\ UNCHANGED <<harness, p3Vars, ringVars, pipeVars, p1Vars, num_threads, mutexes,
                   global_stats, tpc, t_i, retry_count, failed_trylocks>>

\* a step of thread t
ThreadStep(t) ==
    \/ LockFirst(t) \/ LockSecond(t) \/ TrylockSecond(t)
    \/ UnlockSecond(t) \/ UnlockFirst(t)
    \/ increment_success(t) \/ increment_backoff(t) \/ increment_timeout(t)

\* the steps of demonstrate_deadlock and benchmark_ordered_solution
BlockingNext ==
    \/ \E t \in AllLockThreads : LockFirst(t)
    \/ \E t \in AllLockThreads : LockSecond(t)
    \/ \E t \in AllLockThreads : UnlockSecond(t)
    \/ \E t \in AllLockThreads : UnlockFirst(t)
    \/ \E t \in AllLockThreads : increment_success(t)
    \/ JoinThread

LockNext ==
    \/ BlockingNext
    \/ \E t \in AllLockThreads : TrylockSecond(t)
    \/ \E t \in AllLockThreads : increment_backoff(t)
    \/ \E t \in AllLockThreads : increment_timeout(t)

\* ------------------------------------------------------------------------
\* p3_rw.cpp
\* ------------------------------------------------------------------------

\* A map as its constructor leaves it, and the worker threads before their
\* first operation.  buckets holds the value of a key, 0 for a key that is
\* absent; rwlock is the pthread_rwlock_t of RWLockHashMap, and the
\* pthread_mutex_t of MutexHashMap is held as its writer.
MapInit ==
    /\ hashmap = [reads |-> 0, writes |-> 0, buckets |-> [k \in Keys |-> 0],
                  rwlock |-> [writer |-> Free, readers |-> {}]]
    /\ mw = [t \in MapThreads |->
               [pc |-> "loop", i |-> 0, is_read |-> FALSE, key |-> 0,
                value |-> 0, reg |-> 0]]
    /\ \E k \in (IF program = "hashmap" THEN BOOLEAN ELSE {FALSE}) :
          bench = [is_rwlock |-> k, populated |-> 0, joined |-> 0,
                   total_ops |-> -1]

\* populate_hashmap: one map->put(key, value), made by the main thread
\* before any worker exists
populate_hashmap ==
    /\ program = "hashmap"
    /\ bench.populated < INITIAL_ENTRIES
    /\ \E key \in Keys, value \in Values :
          hashmap' = [hashmap EXCEPT !.writes = hashmap.writes + 1,
                                     !.buckets[key] = value]
    /\ bench' = [bench EXCEPT !.populated = bench.populated + 1]
    /\ UNCHANGED <<harness, ringVars, pipeVars, p1Vars, p4Vars, mw>>

\* worker_thread: the head of the for loop and the draws of key, of the
\* kind of operation and, for a put, of the value
DrawOperation(t) ==
    /\ program = "hashmap"
    /\ bench.populated = INITIAL_ENTRIES
    /\ mw[t].pc = "loop"
    /\ IF mw[t].i < OpsPerThread
       THEN \E key \in Keys, is_read \in BOOLEAN, value \in Values :
               mw' = [mw EXCEPT ![t].pc = "lock", ![t].key = key,
                                ![t].is_read = is_read,
                                ![t].value = IF is_read THEN 0 ELSE value]
       ELSE mw' = [mw EXCEPT ![t].pc = "returned"]
    /\ UNCHANGED <<harness, ringVars, pipeVars, p1Vars, p4Vars, hashmap, bench>>

\* when the lock of get or put is granted: pthread_mutex_lock in
\* MutexHashMap, pthread_rwlock_rdlock in RWLockHashMap::get and
\* pthread_rwlock_wrlock in RWLockHashMap::put
MapLockable(t) ==
    IF bench.is_rwlock /\ mw[t].is_read
    THEN hashmap.rwlock.writer = Free
    ELSE hashmap.rwlock.writer = Free /\ hashmap.rwlock.readers = {}

\* get / put: the lock and the load of reads++ or writes++
MapLock(t) ==
    /\ program = "hashmap"
    /\ mw[t].pc = "lock"
    /\ MapLockable(t)
    /\ hashmap' = IF bench.is_rwlock /\ mw[t].is_read
                  THEN [hashmap EXCEPT !.rwlock.readers = hashmap.rwlock.readers \cup {t}]
                  ELSE [hashmap EXCEPT !.rwlock.writer = t]
    /\ mw' = [mw EXCEPT ![t].pc = "locked",
                        ![t].reg = IF mw[t].is_read THEN hashmap.reads
                                   ELSE hashmap.writes]
    /\ UNCHANGED <<harness, ringVars, pipeVars, p1Vars, p4Vars, bench>>

\* get / put: the store of reads++ or writes++, the walk of the bucket (a
\* put sets the value of its key), the unlock and the return
MapUnlock(t) ==
    /\ program = "hashmap"
    /\ mw[t].pc = "locked"
    /\ hashmap' =
          IF mw[t].is_read
          THEN [hashmap EXCEPT !.reads = mw[t].reg + 1,
                               !.rwlock.readers = hashmap.rwlock.readers \ {t},
                               !.rwlock.writer =
                                  IF hashmap.rwlock.writer = t THEN Free
                                  ELSE hashmap.rwlock.writer]
          ELSE [hashmap EXCEPT !.writes = mw[t].reg + 1,
                               !.buckets[mw[t].key] = mw[t].value,
                               !.rwlock.writer = Free]
    /\ mw' = [mw EXCEPT ![t] = [pc |-> "loop", i |-> mw[t].i + 1, is_read |-> FALSE,
                                 key |-> 0, value |-> 0, reg |-> 0]]
    /\ UNCHANGED <<harness, ringVars, pipeVars, p1Vars, p4Vars, bench>>

\* benchmark_hashmap: pthread_join(threads[i]) for i = 0, 1, ...
JoinMapThread ==
    /\ program = "hashmap"
    /\ bench.joined < Cardinality(MapThreads)
    /\ mw[<<"map", bench.joined>>].pc = "returned"
    /\ bench' = [bench EXCEPT !.joined = bench.joined + 1]
    /\ UNCHANGED <<harness, ringVars, pipeVars, p1Vars, p4Vars, hashmap, mw>>

\* benchmark_hashmap after the joins: map->get_stats and
\* total_ops = reads + writes
get_stats ==
    /\ program = "hashmap"
    /\ bench.joined = Cardinality(MapThreads)
    /\ bench.total_ops = -1
    /\ hashmap.rwlock.writer = Free
    /\ bench' = [bench EXCEPT !.total_ops = hashmap.reads + hashmap.writes]
    /\ UNCHANGED <<harness, ringVars, pipeVars, p1Vars, p4Vars, hashmap, mw>>

MapNext ==
    \/ populate_hashmap
    \/ \E t \in MapThreads : DrawOperation(t)
    \/ \E t \in MapThreads : MapLock(t)
    \/ \E t \in MapThreads : MapUnlock(t)
    \/ JoinMapThread
    \/ get_stats

Init ==
    /\ program \in Programs
    /\ IF program = "buffer_api"
       THEN \E r \in ApiRuns : api_buf = r[1] /\ api_clients = r[2]
       ELSE api_buf = 1 /\ api_clients = {}
    /\ IF program = "pipeline"
       THEN \E c \in RunConfigs : num_ticks = c[1] /\ log_openable = c[2]
       ELSE num_ticks = DefaultConfig[1] /\ log_openable = DefaultConfig[2]
    /\ IF program = "counter"
       THEN worker_func \in Strategies
       ELSE worker_func = "worker_naive"
    /\ IF program \in LockPrograms
       THEN num_threads \in ThreadCounts
       ELSE num_threads = 2
    /\ RingInit
    /\ PipeInit
    /\ CounterInit
    /\ LockInit
    /\ MapInit

Next == RingNext \/ BufferNext \/ StageNext \/ CounterNext \/ LockNext \/ MapNext

Spec == Init /\ [][Next]_vars

\* benchmark_ordered_solution on its own
OrderedInitOnly ==
    /\ Init
    /\ program = "ordered"

\* Every thread that can take a step is scheduled in the end, and so is
\* the main thread in its joins.
OrderedFairness ==
    /\ \A t \in AllLockThreads : WF_vars(ThreadStep(t))
    /\ WF_vars(JoinThread)

OrderedLiveSpec == OrderedInitOnly /\ [][BlockingNext]_vars /\ OrderedFairness

\* The pipeline program as main runs it: nothing in p5_pipeline.cpp calls
\* request_pipeline_shutdown, argv[1] is absent and the log file opens.
PipeInitOnly ==
    /\ Init
    /\ program = "pipeline"
    /\ num_ticks = DefaultConfig[1]
    /\ log_openable = DefaultConfig[2]

PipeNext == BufferOps \/ StageNext

\* a step of stage thread s other than the passing of a deadline
StageStep(s) ==
    \/ OnceEnter(s) \/ init_shared_resources(s) \/ OncePass(s)
    \/ TickStart(s)
    \/ PushCheck(s) \/ PushInsert(s) \/ PopCheck(s)
    \/ TimedWait(s) \/ TimedOut(s) \/ LogWrite(s)
    \/ StatsLock(s) \/ StatBarrier(s) \/ BarrierArrive(s) \/ BarrierReturn(s)

\* Every stage thread and the main thread are scheduled again and again,
\* and the absolute deadline of a timed wait passes: a thread that sleeps
\* in pthread_cond_timedwait again and again is timed out in the end.
PipeFairness ==
    /\ \A s \in Stages : WF_vars(StageStep(s)) /\ SF_vars(DeadlineExpires(s))
    /\ WF_vars(StatGenerated)
    /\ WF_vars(Process \/ StatProcessed)
    /\ WF_vars(FilterReduce \/ AddLatency \/ StatFiltered)
    /\ WF_vars(JoinStage)

PipeLiveSpec ==
    /\ PipeInitOnly
    /\ [][PipeNext]_vars
    /\ PipeFairness

\* The programs of p2_ring.cpp alone, with every thread scheduled again and
\* again: a producer or consumer that can take a step of its call takes it,
\* and so does the main thread of run_benchmark.
RingFairness ==
    /\ \A p \in Producers : WF_vars(ring_push(p))
    /\ \A c \in Consumers : WF_vars(ring_pop(c))
    /\ WF_vars(JoinProducers \/ BenchShutdown \/ JoinConsumers)

RingInitOnly == Init /\ program \in RingPrograms

RingLiveSpec ==
    /\ RingInitOnly
    /\ [][RingNext]_vars
    /\ RingFairness

\* ------------------------------------------------------------------------
\* Properties
\* ------------------------------------------------------------------------

IsPrefix(a, b) == Len(a) <= Len(b) /\ SubSeq(b, 1, Len(a)) = a

\* C1: in every reachable state the element count of the Ring is within
\* 0..QUEUE_SIZE and the sizes of stage1_to_stage2 and stage2_to_stage3 are
\* within 0..BUFFER_SIZE, and each count is the number of insertions minus
\* the number of removals made so far (no insertion into a full queue, no
\* removal from an empty one).
C1_Capacity ==
    /\ ring.count \in 0..QUEUE_SIZE
    /\ ring.count = Len(pushed) - Len(popped)
    /\ \A b \in {1, 2} :
         /\ Len(buffers[b]) \in 0..BUFFER_SIZE
         /\ Len(buffers[b]) = Len(b_pushed[b]) - Len(b_popped[b])

\* a pusher woken for a slot that another pusher has taken: the buffer is
\* full again when it re-evaluates its wait predicate
C1_Witness ==
    /\ program = "buffer_api"
    /\ Len(buffers[api_buf]) = BUFFER_SIZE
    /\ Len(b_popped[api_buf]) > 0
    /\ \E t \in Pushers : pc[t] = "woken"
    /\ \E t \in Pushers : pc[t] = "idle" /\ ncalls[t] = MaxCalls

\* C2: in the Ring and in each pipeline buffer the sequence of values
\* removed, in removal order, is a prefix of the sequence of values
\* inserted, in insertion order.
C2_Fifo ==
    /\ IsPrefix(popped, pushed)
    /\ \A b \in {1, 2} : IsPrefix(b_popped[b], b_pushed[b])

\* more values than the ring holds have gone through it, from two producers
C2_Witness ==
    /\ program \in RingPrograms
    /\ Len(popped) > QUEUE_SIZE
    /\ \E k \in 1..Len(popped) : popped[k] >= 1000000
    /\ \E k \in 1..Len(popped) : popped[k] < 1000000

\* C3: in run_benchmark, once the consumers are joined after ring_shutdown,
\* the values popped are exactly the values pushed (each once, none lost),
\* total_consumed = total_produced and count = 0.
C3_NoLoss ==
    (program = "ring_benchmark" /\ mpc = "joined") =>
        /\ popped = pushed
        /\ ring.total_consumed = ring.total_produced
        /\ ring.total_produced = Len(pushed)
        /\ ring.count = 0

\* the benchmark has ended with every value produced, some of them removed
\* only after the shutdown
C3_Witness ==
    /\ program = "ring_benchmark"
    /\ mpc = "joined"
    /\ ring.total_produced = NumProducers * ItemsPerProducer
    /\ r_drained > 0

\* C4: once stop_requested or force_stop is set, no step inserts into the
\* ring (buffer, head and total_produced stay, count does not grow), and a
\* producer that completes a ring_push gets false and stops.
C4_NoPushAfterStop ==
    [][Stopping(ring) =>
         /\ ring'.buffer = ring.buffer
         /\ ring'.head = ring.head
         /\ ring'.total_produced = ring.total_produced
         /\ ring'.count <= ring.count
         /\ pushed' = pushed
         /\ \A p \in Producers :
              (rpc[p] \in {"call", "woken"} /\ rpc'[p] # rpc[p]) =>
                  (rpc'[p] = "done" /\ r_ret'[p] = "false" /\ r_i'[p] = r_i[p])]_vars

\* a producer was refused although the ring had room
C4_Witness ==
    /\ program = "ring_api"
    /\ Stopping(ring)
    /\ ring.count < QUEUE_SIZE
    /\ \E p \in Producers :
         rpc[p] = "done" /\ r_ret[p] = "false" /\ r_i[p] < ItemsPerProducer

\* C5: after request_pipeline_shutdown has returned no step inserts an item
\* into stage1_to_stage2 or stage2_to_stage3.
C5_NoInsertAfterShutdown ==
    [][(program = "pipeline" /\ sdpc = "returned") => b_pushed' = b_pushed]_vars

\* C6: with shutdown requested, a pop that completes on a non-empty queue
\* removes and returns the oldest item, and a pop returns false for the
\* shutdown only on an empty queue (ring_pop, pop_from_buffer1,
\* pop_from_buffer2).
C6_DrainAfterShutdown ==
    [][/\ Stopping(ring) =>
            \A c \in Consumers :
               (rpc[c] \in {"call", "woken"} /\ rpc'[c] # rpc[c]) =>
                  IF ring.count = 0
                  THEN rpc'[c] = "done" /\ r_ret'[c] = "false" /\ popped' = popped
                  ELSE r_ret'[c] = "true" /\ popped' = Append(popped, RingFront(ring))
       /\ pipeline_shutdown =>
            \A t \in BufThreads :
               (call[t].op = "pop" /\ pc[t] \in {"enter", "woken"} /\ pc'[t] # pc[t]) =>
                  LET b == call[t].buf IN
                  IF BufferEmpty(buffers[b])
                  THEN pc'[t] = AfterCall(t, "pop", FALSE) /\ b_popped' = b_popped
                  ELSE /\ pc'[t] = AfterCall(t, "pop", TRUE)
                       /\ b_popped' = [b_popped EXCEPT ![b] =
                                         Append(b_popped[b], Head(buffers[b]))]]_vars

\* two values that were in the ring at the shutdown have been popped since
C6_Witness ==
    /\ program = "ring_api"
    /\ ring.stop_requested
    /\ r_drained >= 2
    /\ \E c \in Consumers : rpc[c] = "done" /\ r_ret[c] = "false"

\* C7: once ring_shutdown or ring_force_stop has returned no thread is
\* asleep in a wait of the Ring; a producer that was blocked returns false,
\* a consumer that was blocked returns false when the ring is empty; and
\* every producer and consumer thread comes to its end.
C7_ShutdownReleases ==
    /\ [](Stopping(ring) => \A t \in RingThreads : rpc[t] # "waiting")
    /\ [][Stopping(ring) =>
            \A t \in RingThreads :
               (rpc[t] = "woken" /\ rpc'[t] # "woken"
                  /\ (t \in Producers \/ ring.count = 0))
               => (rpc'[t] = "done" /\ r_ret'[t] = "false")]_vars
    /\ (Stopping(ring) ~> \A t \in RingThreads : rpc[t] = "done")

\* a producer that slept on not_full was released by the shutdown and
\* returned false
C7_Witness ==
    /\ program = "ring_api"
    /\ Stopping(ring)
    /\ \E p \in Producers : rpc[p] = "done" /\ r_blocked[p] /\ r_ret[p] = "false"

\* C8: once request_pipeline_shutdown has returned no thread is asleep in
\* pthread_cond_timedwait on a buffer condition.
C8_NoSleepAfterShutdown ==
    (program = "pipeline" /\ sdpc = "returned") => \A t \in BufThreads : pc[t] # "asleep"

\* C9: no stage is in tick k+1 before all three stages have called
\* pthread_barrier_wait for tick k, and the tick indices of two stages
\* differ by at most 1.
C9_LockStep ==
    \A s, t \in Stages :
       /\ tick[s] <= b_arrived[t]
       /\ tick[s] - tick[t] <= 1

\* a stage works on tick 1 while another has not yet left the barrier of
\* tick 0
C9_Witness ==
    /\ program = "pipeline"
    /\ \E s, t \in Stages :
          /\ tick[s] = 1 /\ pc[s] \in {"enter", "insert", "wait", "asleep"}
          /\ tick[t] = 0 /\ pc[t] = "released"

SumOver(f) == f[Generator] + f[Processor] + f[Filter]

MinArrived ==
    CHOOSE n \in {b_arrived[s] : s \in Stages} : \A s \in Stages : n <= b_arrived[s]

\* C10: no call of pthread_barrier_wait returns before all three stages
\* have arrived in its cycle; when a cycle is complete none of its callers
\* stays blocked; the completed cycles are the cycles in which all three
\* arrived, and each has exactly one PTHREAD_BARRIER_SERIAL_THREAD result.
C10_BarrierExact ==
    /\ \A s, t \in Stages : b_returned[s] <= b_arrived[t]
    /\ \A s \in Stages :
         /\ pc[s] = "blocked" => b_arrived[s] = barrier.generation + 1
         /\ pc[s] = "released" => b_returned[s] + 1 = barrier.generation
         /\ b_returned[s] <= barrier.generation
         /\ b_serial[s] <= b_returned[s]
    /\ barrier.generation = MinArrived
    /\ SumOver(b_serial) = barrier.generation
    /\ barrier.waiting < barrier.count

\* every cycle of the run is complete and all three stages have returned
\* from each
C10_Witness ==
    /\ program = "pipeline"
    /\ barrier.generation = DEFAULT_TICKS
    /\ \A s \in Stages : b_returned[s] = DEFAULT_TICKS /\ pc[s] = "drained"

\* C11: init_shared_resources runs at most once, and a stage that is past
\* its pthread_once call finds the single execution finished: once_flag is
\* done, the body has run exactly once, and global_rng and log_file have been
\* made (lookup_table is filled in the same execution).
C11_InitOnce ==
    /\ init_runs <= 1
    /\ \A s \in Stages :
         pc[s] \notin {"once", "init_shared_resources"} =>
            /\ once_flag = "done"
            /\ init_runs = 1
            /\ global_rng.made
            /\ log_file.state # "null"

\* the initialiser has run and all three stages are past pthread_once, the
\* filter stage having completed a tick
C11_Witness ==
    /\ program = "pipeline"
    /\ init_runs = 1
    /\ b_returned[Filter] > 0
    /\ \A s \in Stages : pc[s] \notin {"once", "init_shared_resources"}

\* C12: when run_pipeline_benchmark(num_ticks) has joined the stages of a
\* run without timeout and without shutdown request, every stage has made
\* num_ticks ticks, items_generated = items_processed = num_ticks and
\* items_filtered <= num_ticks.
C12_TicksAsRequested ==
    (/\ program = "pipeline"
     /\ ppc = 3
     /\ sd_calls = 0
     /\ \A s \in Stages : pc[s] = "drained")
    => /\ \A s \in Stages : tick[s] = num_ticks
       /\ pipeline_stats.items_generated = num_ticks
       /\ pipeline_stats.items_processed = num_ticks
       /\ pipeline_stats.items_filtered <= num_ticks

\* C13: when a buffer operation of a stage has failed and the stage has
\* stopped, the three stage threads end and run_pipeline_benchmark gets past
\* its three joins.
C13_TimeoutRecoverable ==
    (\E s \in Stages : pc[s] = "stopped") ~> (ppc = 3)

\* C14: once a stage has left its loop without calling pthread_barrier_wait
\* for its tick, the barrier completes no further cycle, no stage returns
\* from a later cycle than the last one the stopped stage completed, and a
\* stage blocked in pthread_barrier_wait stays blocked, whatever
\* request_pipeline_shutdown does.
C14_BarrierNeverCompletes ==
    /\ [](\A s \in Stages :
            pc[s] = "stopped" =>
               /\ barrier.generation = b_arrived[s]
               /\ \A t \in Stages : b_returned[t] <= b_arrived[s])
    /\ [][\A s, t \in Stages :
            (pc[s] = "stopped" /\ pc[t] = "blocked") =>
               (pc'[t] = "blocked" /\ barrier'.generation = barrier.generation)]_vars

\* the processor has stopped, the generator is blocked in the barrier and
\* request_pipeline_shutdown has returned
C14_Witness ==
    /\ program = "pipeline"
    /\ pc[Processor] = "stopped"
    /\ pc[Generator] = "blocked"
    /\ sdpc = "returned"

\* C15: a run in which no buffer operation times out (and in which, as in
\* the program, nothing requests shutdown) comes to the end of
\* run_pipeline_benchmark's three joins.
C15_NormalRunReturns ==
    <>(ppc = 3 \/ \E s \in Stages : pc[s] = "timedout")

\* all three stages went through their loops and were joined
C15_Witness ==
    /\ program = "pipeline"
    /\ ppc = 3
    /\ \A s \in Stages : pc[s] = "drained" /\ tick[s] = DEFAULT_TICKS

\* C16: when all stages have completed their ticks and are joined,
\* pipeline_stats.barrier_waits is the number of barrier cycles completed.
C16_BarrierWaitsAreCycles ==
    (/\ program = "pipeline"
     /\ ppc = 3
     /\ \A s \in Stages : pc[s] = "drained")
    => pipeline_stats.barrier_waits = barrier.generation

\* C17: while nothing has been removed from a buffer and no shutdown is
\* requested, a push that finds room inserts and returns true, a push that
\* finds the buffer at BUFFER_SIZE waits, and a push that returns with the
\* buffer at BUFFER_SIZE returns false out of its expired timed wait and
\* leaves the buffer as it was.
C17_FullBufferPushTimesOut ==
    [][(program = "buffer_api" /\ b_popped[api_buf] = <<>> /\ ~pipeline_shutdown) =>
         \A t \in Pushers :
            /\ (pc[t] \in {"enter", "woken"} /\ pc'[t] # pc[t]) =>
                  pc'[t] = IF Len(buffers[api_buf]) < BUFFER_SIZE
                           THEN "insert" ELSE "wait"
            /\ (pc[t] = "insert" /\ pc'[t] # "insert") =>
                  /\ Len(buffers[api_buf]) < BUFFER_SIZE
                  /\ ret'[t] = "true"
            /\ (pc[t] # "idle" /\ pc'[t] = "idle"
                  /\ Len(buffers[api_buf]) = BUFFER_SIZE) =>
                  /\ pc[t] = "timedout"
                  /\ ret'[t] = "false"
                  /\ buffers' = buffers]_vars

\* BUFFER_SIZE pushes went in, no popper has called, and a further push has
\* returned false
C17_Witness ==
    /\ program = "buffer_api"
    /\ ~pipeline_shutdown
    /\ \A c \in Poppers : ncalls[c] = 0
    /\ Len(b_pushed[api_buf]) = BUFFER_SIZE
    /\ Len(buffers[api_buf]) = BUFFER_SIZE
    /\ \E t \in Pushers : pc[t] = "idle" /\ ret[t] = "false"

\* the items the generator makes from the outputs the engine has given: the
\* k-th draw goes into the item with id k - 1
ExpectedItems ==
    [k \in 1..Len(global_rng.drawn) |->
       LET made == [id |-> k - 1, raw_value |-> global_rng.drawn[k],
                    processed_value |-> 0, is_valid |-> FALSE]
       IN  [made EXCEPT !.processed_value = processed_value(made)]]

\* the (id, raw_value) pairs of a sequence of items
IdAndValue(items) ==
    [k \in 1..Len(items) |-> [id |-> items[k].id, raw_value |-> items[k].raw_value]]

CountPassing(items) == Cardinality({k \in 1..Len(items) : passes_filter(items[k])})

\* C18: in every interleaving the (id, raw_value) pairs the filter stage
\* has consumed are the first outputs of the seeded engine paired with the
\* ids 0, 1, ... in order, and when all stages have completed their ticks
\* the filter has consumed all DEFAULT_TICKS of them and items_filtered is
\* the number of them that pass the filter.
C18_Deterministic ==
    program = "pipeline" =>
       /\ IsPrefix(b_popped[2], ExpectedItems)
       /\ (\A s \in Stages : pc[s] = "drained") =>
             /\ Len(b_popped[2]) = DEFAULT_TICKS
             /\ b_popped[2] = ExpectedItems
             /\ pipeline_stats.items_filtered = CountPassing(ExpectedItems)

\* a complete run with an item that passed the filter and one that did not
C18_Witness ==
    /\ program = "pipeline"
    /\ \A s \in Stages : pc[s] = "drained"
    /\ pipeline_stats.items_filtered > 0
    /\ pipeline_stats.items_filtered < pipeline_stats.items_processed

\* C19: when the log file cannot be opened, init_shared_resources still
\* completes with the engine made, no record is ever written, and a run
\* that completes has generated and processed DEFAULT_TICKS items and
\* filtered the items given by the engine's outputs, the figures of a run
\* with a working log file.
C19_LogFailureHarmless ==
    (program = "pipeline" /\ ~log_openable) =>
       /\ once_flag = "done" =>
             (init_runs = 1 /\ global_rng.made /\ log_file.state = "failed")
       /\ \A s \in Stages : log_file.records[s] = 0
       /\ (\A s \in Stages : pc[s] = "drained") =>
             /\ pipeline_stats.items_generated = DEFAULT_TICKS
             /\ pipeline_stats.items_processed = DEFAULT_TICKS
             /\ IdAndValue(b_pushed[1]) = IdAndValue(ExpectedItems)
             /\ b_popped[2] = ExpectedItems
             /\ pipeline_stats.items_filtered = CountPassing(ExpectedItems)

\* a complete run without log file in which an item passed the filter
C19_Witness ==
    /\ program = "pipeline"
    /\ ~log_openable
    /\ log_file.state = "failed"
    /\ ppc = 3
    /\ \A s \in Stages : pc[s] = "drained"
    /\ pipeline_stats.items_filtered > 0

\* C20: a further call of ring_shutdown changes nothing (stop_requested is
\* set already and no thread sleeps in a Ring wait), and a further call of
\* request_pipeline_shutdown leaves the flag, the buffers, the counters and
\* every returned value as they are; the only threads it touches are
\* sleepers of a timed wait, whose call returns false woken as it does
\* timed out: a push for the flag, a pop on its empty buffer.
C20_ShutdownIdempotent ==
    /\ [](ring.stop_requested =>
            /\ [ring EXCEPT !.stop_requested = TRUE] = ring
            /\ BroadcastAll(rpc) = rpc)
    /\ [][(\/ sd_calls >= 1 /\ sd_calls' = sd_calls + 1
           \/ sd_calls >= 2 /\ sdpc = "broadcast" /\ sdpc' = "returned") =>
            /\ pipeline_shutdown' = pipeline_shutdown
            /\ buffers' = buffers
            /\ pipeline_stats' = pipeline_stats
            /\ b_pushed' = b_pushed /\ b_popped' = b_popped
            /\ ret' = ret
            /\ \A t \in BufThreads :
                 pc'[t] # pc[t] =>
                    /\ pc[t] = "asleep" /\ pc'[t] = "woken"
                    /\ call[t].op = "pop" => BufferEmpty(buffers[call[t].buf])]_vars

\* request_pipeline_shutdown has returned from its second call and has
\* woken a thread that slept through the first
C20_Witness ==
    /\ program = "buffer_api"
    /\ sd_calls = 2
    /\ sdpc = "returned"
    /\ pipeline_shutdown
    /\ \E t \in api_clients : pc[t] = "woken"

\* the positions of the filter stage between its pop and the end of the
\* statements that count a valid item
FilterSection ==
    {"filter", "add_latency", "add_latency_locked", "log", "stat_filtered",
     "stat_filtered_locked"}

C21_Criteria(item) ==
    /\ item.processed_value > 100 /\ item.processed_value < 100000
    /\ item.id % 13 # 0
    /\ (item.raw_value % 3 = 0 \/ item.raw_value % 7 = 0)

C21_ValidOf(items) == {k \in 1..Len(items) : C21_Criteria(items[k])}

RECURSIVE C21_SumValid(_)
C21_SumValid(items) ==
    IF items = <<>> THEN 0
    ELSE (IF C21_Criteria(Head(items)) THEN Head(items).processed_value ELSE 0)
         + C21_SumValid(Tail(items))

\* C21: the filter stage marks an item valid exactly when 0.1 <
\* processed_value < 100.0, id mod 13 # 0 and raw_value mod 3 = 0 or
\* raw_value mod 7 = 0; whenever the stage is outside its filter statements,
\* items_filtered and the number of latencies added to total_latency_ms are
\* the number of such items among the items it has popped and
\* accumulated_result is the sum of their processed values, so an item
\* that fails a criterion changes none of them.
C21_FilterCountsValid ==
    program = "pipeline" =>
       /\ pc[Filter] \notin FilterSection =>
             /\ pipeline_stats.items_filtered = Cardinality(C21_ValidOf(b_popped[2]))
             /\ pipeline_stats.total_latency_ms = Cardinality(C21_ValidOf(b_popped[2]))
             /\ accumulated_result = C21_SumValid(b_popped[2])
       /\ pc[Filter] \in {"stat_barrier", "stat_barrier_locked"} =>
             /\ call[Filter].item.id = b_popped[2][Len(b_popped[2])].id
             /\ call[Filter].item.is_valid = C21_Criteria(call[Filter].item)
       /\ pc[Filter] \in FilterSection \ {"filter"} =>
             /\ call[Filter].item.is_valid
             /\ C21_Criteria(call[Filter].item)

\* the filter stage has rejected its first item and counted its second
C21_Witness ==
    /\ program = "pipeline"
    /\ pc[Filter] = "stat_barrier"
    /\ Len(b_popped[2]) = 2
    /\ ~C21_Criteria(b_popped[2][1])
    /\ call[Filter].item.is_valid
    /\ pipeline_stats.items_filtered = 1
    /\ pipeline_stats.total_latency_ms = 1
    /\ accumulated_result = call[Filter].item.processed_value
    /\ accumulated_result > 0

\* a step in which the buffer operation of stage s returns false: out of
\* the test of pipeline_shutdown, out of an empty buffer, or out of an
\* expired timed wait
C22_ReturnsFalse(s) ==
    /\ pc[s] \in {"enter", "woken", "timedout"}
    /\ call[s] # NoCall
    /\ call'[s] = NoCall

\* C22: a stage whose push or pop returns false is out of its loop with
\* that step, and from then on it starts no buffer operation, calls
\* pthread_barrier_wait no more and writes no counter: its own counter and
\* its pthread_barrier_wait calls stay at the number of ticks it completed
\* before, and barrier_waits holds nothing of it beyond those calls.
C22_FalseLeavesLoop ==
    [][program = "pipeline" =>
         /\ \A s \in Stages :
              /\ C22_ReturnsFalse(s) => pc'[s] = "stopped"
              /\ pc[s] = "stopped" =>
                    /\ pc'[s] = "stopped"
                    /\ call'[s] = NoCall
                    /\ tick'[s] = tick[s]
              /\ pc'[s] = "stopped" =>
                    /\ b_arrived'[s] = tick'[s]
                    /\ stats_mutex' # s
         /\ pc'[Generator] = "stopped" =>
               pipeline_stats'.items_generated = tick'[Generator]
         /\ pc'[Processor] = "stopped" =>
               pipeline_stats'.items_processed = tick'[Processor]
         /\ pc'[Filter] = "stopped" =>
               /\ Len(b_popped'[2]) = tick'[Filter]
               /\ pipeline_stats'.items_filtered = Cardinality(C21_ValidOf(b_popped'[2]))
         /\ pipeline_stats'.barrier_waits =
               SumOver(b_arrived') + Cardinality({s \in Stages : pc'[s] = "barrier"})
      ]_vars

\* the processor completed a tick, then its pop returned false, while the
\* generator had already counted its second item
C22_Witness ==
    /\ program = "pipeline"
    /\ pc[Processor] = "stopped"
    /\ tick[Processor] = 1
    /\ pipeline_stats.items_processed = 1
    /\ pipeline_stats.items_generated = 2
    /\ pipeline_stats.barrier_waits >= 3

\* the mutexes of p5_pipeline.cpp a thread holds
C23_Held(t) ==
    (IF buffer_mutex[1] = t THEN {"buffer1_mutex"} ELSE {})
       \cup (IF buffer_mutex[2] = t THEN {"buffer2_mutex"} ELSE {})
       \cup (IF stats_mutex = t THEN {"stats_mutex"} ELSE {})
       \cup (IF shutdown_mutex = t THEN {"shutdown_mutex"} ELSE {})

\* the positions in which a thread is blocked or may block: before a
\* pthread_mutex_lock, in pthread_cond_timedwait and the re-locking at its
\* return, and in pthread_barrier_wait
C23_Blocking ==
    {"enter", "asleep", "woken", "timedout", "stat_generated", "stat_processed",
     "add_latency", "stat_filtered", "stat_barrier", "barrier", "blocked"}

\* C23: no thread holds two of buffer1_mutex, buffer2_mutex, stats_mutex
\* and shutdown_mutex at once, and a thread that is about to lock one of
\* them, sleeps in a timed wait or is in pthread_barrier_wait holds none.
C23_OneLockAtATime ==
    program \in PipePrograms =>
       /\ \A t \in BufThreads \cup {Requester} : Cardinality(C23_Held(t)) <= 1
       /\ \A t \in BufThreads : pc[t] \in C23_Blocking => C23_Held(t) = {}
       /\ sdpc \in {"idle", "returned"} => C23_Held(Requester) = {}

\* three mutexes are held by three threads while the filter sleeps in its
\* timed wait
C23_Witness ==
    /\ program = "pipeline"
    /\ stats_mutex = Generator
    /\ buffer_mutex[2] = Processor
    /\ shutdown_mutex = Requester
    /\ pc[Filter] = "asleep"

\* the field a stage inside a stats_mutex section is updating
C24_Field(s) ==
    CASE pc[s] = "stat_generated_locked" -> "items_generated"
      [] pc[s] = "stat_processed_locked" -> "items_processed"
      [] pc[s] = "add_latency_locked"    -> "total_latency_ms"
      [] pc[s] = "stat_filtered_locked"  -> "items_filtered"
      [] pc[s] = "stat_barrier_locked"   -> "barrier_waits"

\* C24: a field of pipeline_stats changes only in the step in which a stage
\* that holds stats_mutex leaves its section, that step adds one increment
\* to the field of the section and leaves the other fields alone (no
\* increment is lost), at most one stage is inside a section, no field is
\* ever set back while the run lasts, and the coordinator reads the block
\* only when every stage thread has ended.
C24_StatsUnderMutex ==
    [][program = "pipeline" =>
         /\ \A s \in Stages :
              (pc[s] \in StatLocked /\ pc'[s] # pc[s]) =>
                 /\ stats_mutex = s
                 /\ pipeline_stats' =
                       [pipeline_stats EXCEPT
                          ![C24_Field(s)] = pipeline_stats[C24_Field(s)] + 1]
         /\ pipeline_stats' # pipeline_stats =>
               \E s \in Stages : pc[s] \in StatLocked /\ pc'[s] # pc[s]
         /\ Cardinality({s \in Stages : pc'[s] \in StatLocked}) <= 1
         /\ \A f \in DOMAIN pipeline_stats : pipeline_stats'[f] >= pipeline_stats[f]
         /\ ppc' = 4 =>
               /\ \A s \in Stages : pc'[s] \in {"drained", "stopped"}
               /\ stats_mutex' = Free
      ]_vars

\* the generator is inside its barrier_waits section with its item counted
\* while the processor waits for stats_mutex
C24_Witness ==
    /\ program = "pipeline"
    /\ stats_mutex = Generator
    /\ pc[Generator] = "stat_barrier_locked"
    /\ pipeline_stats.items_generated = 1
    /\ pc[Processor] = "stat_processed"

\* C30: in a pipeline run, with or without timeouts and shutdown, each of
\* stage1_to_stage2 and stage2_to_stage3 holds at most one item, no push
\* finds its buffer full (none waits on a not_full condition), and at the
\* completion of a barrier cycle, which releases all three stages, both
\* buffers are empty.
C30_AtMostOneItem ==
    [][program = "pipeline" =>
         /\ Len(stage1_to_stage2') <= 1
         /\ Len(stage2_to_stage3') <= 1
         /\ \A s \in Stages :
              call'[s].op = "push" =>
                 /\ pc'[s] \notin {"wait", "asleep", "woken", "timedout"}
                 /\ pc'[s] = "insert" => ~BufferFull(buffers'[call'[s].buf])
         /\ barrier'.generation # barrier.generation =>
               /\ stage1_to_stage2' = <<>>
               /\ stage2_to_stage3' = <<>>
               /\ \A s \in Stages : pc'[s] \in {"loop", "released"}
      ]_vars

\* a barrier cycle has completed with every item of the first tick gone
\* through, and the second item is in stage1_to_stage2 while a shutdown is
\* requested
C30_Witness ==
    /\ program = "pipeline"
    /\ barrier.generation = 1
    /\ Len(stage1_to_stage2) = 1
    /\ Len(b_popped[2]) = 1
    /\ pipeline_shutdown

\* C25: with worker_mutex, worker_sharded and worker_atomic the counter
\* the strategy uses always holds the number of increments made so far
\* (for worker_sharded every local counter holds the increments of its own
\* thread), and the final_result computed after the joins is num_threads *
\* iterations.
C25_SafeStrategiesExact ==
    (program = "counter" /\ worker_func # "worker_naive") =>
       /\ worker_func = "worker_mutex" =>
             global_counter = SumCounters(w_i, Workers)
       /\ worker_func = "worker_sharded" =>
             \A w \in Workers : local_counters[w] = w_i[w]
       /\ worker_func = "worker_atomic" =>
             atomic_counter = SumCounters(w_i, Workers)
       /\ final_result.computed =>
             /\ \A w \in Workers : wpc[w] = "returned" /\ w_i[w] = Iterations
             /\ final_result.value = expected_total

\* the run with worker_mutex has computed its final_result
C25_Witness ==
    /\ program = "counter"
    /\ worker_func = "worker_mutex"
    /\ final_result.computed
    /\ final_result.value = Cardinality(Workers) * Iterations

\* C26: with worker_naive the counter never exceeds the number of
\* increments made so far, and the final counter is at most num_threads *
\* iterations.
C26_NaiveNeverGreater ==
    (program = "counter" /\ worker_func = "worker_naive") =>
       /\ global_counter <= SumCounters(w_i, Workers)
       /\ final_result.computed =>
             /\ \A w \in Workers : wpc[w] = "returned"
             /\ final_result.value <= expected_total

\* the run with worker_naive has lost updates: its final counter is below
\* num_threads * iterations
C26_Witness ==
    /\ program = "counter"
    /\ worker_func = "worker_naive"
    /\ final_result.computed
    /\ final_result.value < Cardinality(Workers) * Iterations

\* thread 1 holds mutex_A and waits for mutex_B, thread 2 holds mutex_B and
\* waits for mutex_A
C27_CircularWait ==
    /\ program = "deadlock_demo"
    /\ tpc[1] = "second" /\ mutex_A = Holder(1)
    /\ tpc[2] = "second" /\ mutex_B = Holder(2)

\* C27: from the state in which thread_deadlock_1 holds mutex_A and waits
\* for mutex_B while thread_deadlock_2 holds mutex_B and waits for mutex_A,
\* no step of the program changes the position of a thread, the holder of
\* a mutex, a counter or the number of threads joined.
C27_DeadlockIsFinal ==
    [][C27_CircularWait =>
         /\ tpc' = tpc
         /\ mutexes' = mutexes
         /\ t_i' = t_i
         /\ global_stats' = global_stats
         /\ threads_joined' = threads_joined]_vars

\* the circular wait in the second iteration of both threads
C27_Witness ==
    /\ C27_CircularWait
    /\ t_i[1] = 1 /\ t_i[2] = 1
    /\ global_stats.successful_operations = 2
    /\ threads_joined = 0

\* some thread of p4_deadlock.cpp's running part can take a step
AnyThreadStep == \E t \in AllLockThreads : ThreadStep(t)

\* C28: with thread_ordered_lock, for 1, 2 and 3 threads, in every state
\* in which a thread has not returned some thread can take a step, and
\* under fair scheduling every thread completes its OrderedIterations
\* iterations, all are joined, and successful_operations has grown by
\* OrderedIterations * num_threads.
C28_OrderedCompletes ==
    /\ []((\E t \in LockThreads : tpc[t] # "returned") => ENABLED AnyThreadStep)
    /\ [](global_stats.successful_operations <= OrderedIterations * num_threads)
    /\ <>(/\ \A t \in LockThreads : tpc[t] = "returned" /\ t_i[t] = OrderedIterations
          /\ threads_joined = num_threads
          /\ global_stats.successful_operations = OrderedIterations * num_threads)

\* three threads have completed their iterations and are joined
C28_Witness ==
    /\ program = "ordered"
    /\ num_threads = 3
    /\ \A t \in LockThreads : tpc[t] = "returned"
    /\ threads_joined = 3
    /\ global_stats.successful_operations = 3 * OrderedIterations

\* C29: in thread_trylock_backoff a thread that is about to block on its
\* first mutex holds no mutex, whenever a thread has not returned some
\* thread can take a step (no deadlock, opposite orders included),
\* successes plus timeouts is the number of iterations ended (at the end
\* BackoffIterations * num_threads), an iteration times out only after
\* MaxRetries failed attempts, and backoff_retries counts the failed
\* pthread_mutex_trylock calls (short of those whose increment_backoff is
\* about to run).
C29_TrylockNoDeadlock ==
    program = "trylock" =>
       /\ \A t \in LockThreads :
            /\ tpc[t] = "lock_first" => (mutex_A # Holder(t) /\ mutex_B # Holder(t))
            /\ retry_count[t] <= MaxRetries
            /\ tpc[t] = "timeout" => retry_count[t] = MaxRetries
       /\ (\E t \in LockThreads : tpc[t] # "returned") => ENABLED AnyThreadStep
       /\ global_stats.successful_operations + global_stats.timeouts
             = SumCounters(t_i, LockThreads)
       /\ global_stats.backoff_retries
             + Cardinality({t \in LockThreads : tpc[t] = "backoff"}) = failed_trylocks
       /\ (\A t \in LockThreads : tpc[t] = "returned") =>
             /\ global_stats.successful_operations + global_stats.timeouts
                   = BackoffIterations * num_threads
             /\ global_stats.backoff_retries = failed_trylocks

\* both threads have returned, with an iteration that succeeded and one
\* that timed out after MaxRetries failed attempts
C29_Witness ==
    /\ program = "trylock"
    /\ \A t \in LockThreads : tpc[t] = "returned"
    /\ threads_joined = num_threads
    /\ global_stats.timeouts >= 1
    /\ global_stats.successful_operations >= 1
    /\ global_stats.backoff_retries >= MaxRetries

\* ------------------------------------------------------------------------
\* The items of a tick
\* ------------------------------------------------------------------------

\* the items taken from buffer b so far carry the ids 0, 1, 2, ... in order
PoppedInOrder(b) ==
    \A i \in 1..Len(b_popped[b]) : b_popped[b][i].id = i - 1

\* C31: in a pipeline run the item the processor pops from
\* stage1_to_stage2 in tick k and the item the filter pops from
\* stage2_to_stage3 in tick k both have id k: no item is skipped and none
\* is seen twice.
C31_SameItemSameTick ==
    program = "pipeline" =>
       /\ PoppedInOrder(1)
       /\ PoppedInOrder(2)
       /\ pc[Processor] = "process" =>
             /\ call[Processor].item.id = tick[Processor]
             /\ Len(b_popped[1]) = tick[Processor] + 1
       /\ pc[Filter] = "filter" =>
             /\ call[Filter].item.id = tick[Filter]
             /\ Len(b_popped[2]) = tick[Filter] + 1

\* the filter holds the item of the last tick while the other two stages
\* are in that tick too
C31_Witness ==
    /\ program = "pipeline"
    /\ pc[Filter] = "filter"
    /\ tick[Filter] = DEFAULT_TICKS - 1
    /\ call[Filter].item.id = DEFAULT_TICKS - 1
    /\ tick[Generator] = tick[Filter]
    /\ tick[Processor] = tick[Filter]

\* ------------------------------------------------------------------------
\* The item counters of pipeline_stats
\* ------------------------------------------------------------------------

\* a stage that is not between the start of a tick's buffer operations and
\* the update of its item counter
BetweenTicks(s) ==
    pc[s] \in {"once", "init_shared_resources", "loop", "stat_barrier",
               "stat_barrier_locked", "barrier", "blocked", "released",
               "drained", "stopped"}

\* C32 as stated: at every reachable state of a pipeline run
\* items_filtered <= items_processed <= items_generated.
C32_CountersOrdered ==
    program = "pipeline" =>
       /\ pipeline_stats.items_filtered <= pipeline_stats.items_processed
       /\ pipeline_stats.items_processed <= pipeline_stats.items_generated

\* C32 as amended: items_filtered <= items_processed <= items_generated
\* holds whenever no stage is inside a tick, and in particular when the
\* coordinator reads the counters after the joins; while stages are inside
\* a tick a counter is at most one ahead of the counter upstream of it.
C32_CountersOrderedBetweenTicks ==
    program = "pipeline" =>
       /\ (\A s \in Stages : BetweenTicks(s)) =>
             /\ pipeline_stats.items_filtered <= pipeline_stats.items_processed
             /\ pipeline_stats.items_processed <= pipeline_stats.items_generated
       /\ pipeline_stats.items_filtered <= pipeline_stats.items_processed + 1
       /\ pipeline_stats.items_processed <= pipeline_stats.items_generated + 1

\* the coordinator has joined the three stages of a complete run in which
\* an item passed the filter
C32_Witness ==
    /\ program = "pipeline"
    /\ ppc = 4
    /\ pipeline_stats.items_generated = DEFAULT_TICKS
    /\ pipeline_stats.items_processed = DEFAULT_TICKS
    /\ pipeline_stats.items_filtered >= 1

\* ------------------------------------------------------------------------
\* The log sink
\* ------------------------------------------------------------------------

\* the stage threads that are inside a statement writing to *log_file
LogWriters == {s \in Stages : pc[s] = "log"}

\* C33: writes to the shared log sink never overlap: at no reachable state
\* are two stage threads inside a write to *log_file at the same time.
C33_LogWritesExclusive ==
    program = "pipeline" => Cardinality(LogWriters) <= 1

\* ------------------------------------------------------------------------
\* The pops that return false
\* ------------------------------------------------------------------------

\* a step in which pop_from_bufferN returns false to thread t
C34_PopReturnsFalse(t) ==
    /\ call[t].op = "pop"
    /\ pc[t] \in {"enter", "woken", "timedout"}
    /\ call'[t] = NoCall

\* C34 as stated: pop_from_buffer1 and pop_from_buffer2 return false only
\* with their buffer empty at the moment they return, a pop whose timed
\* wait reported a timeout included.
C34_PopFalseOnlyWhenEmpty ==
    [][(program \in PipePrograms) =>
         (\A t \in BufThreads :
             C34_PopReturnsFalse(t) => BufferEmpty(buffers'[call[t].buf]))
      ]_vars

\* C34 as amended: a pop that returns false without a timeout of its timed
\* wait returns with its buffer empty; a pop whose timed wait reports a
\* timeout returns false whatever the buffer holds by then.
C34_PopFalseWithoutTimeoutWhenEmpty ==
    [][(program \in PipePrograms) =>
         (\A t \in BufThreads :
             (C34_PopReturnsFalse(t) /\ pc[t] # "timedout")
                => BufferEmpty(buffers'[call[t].buf]))
      ]_vars

\* after shutdown a popper has drained the buffer and a pop has then
\* returned false on the empty buffer
C34_Witness ==
    /\ program = "buffer_api"
    /\ pipeline_shutdown
    /\ b_drained >= 1
    /\ BufferEmpty(buffers[api_buf])
    /\ Len(b_popped[api_buf]) = Len(b_pushed[api_buf])
    /\ \E t \in Poppers \cap api_clients :
          pc[t] = "idle" /\ ret[t] = "false" /\ ncalls[t] = MaxCalls

\* ------------------------------------------------------------------------
\* The indices and totals of the Ring
\* ------------------------------------------------------------------------

\* head is count places after tail, and what was produced and not consumed
\* is in the ring
RingConsistent(r) ==
    /\ r.head = (r.tail + r.count) % QUEUE_SIZE
    /\ r.total_produced - r.total_consumed = r.count

\* a step in which ring_push or ring_pop returns false to thread t
C35_Fails(t) ==
    /\ rpc[t] \in {"call", "woken"}
    /\ rpc'[t] = "done"
    /\ r_ret'[t] = "false"

\* C35: every reachable state of a Ring has head = (tail + count) mod
\* QUEUE_SIZE and total_produced - total_consumed = count, and a ring_push
\* or ring_pop that fails changes none of head, tail, count, total_produced
\* and total_consumed.
C35_RingConsistent ==
    /\ [](program \in RingPrograms => RingConsistent(ring))
    /\ [][(program \in RingPrograms /\ \E t \in RingThreads : C35_Fails(t)) =>
            /\ ring'.head = ring.head
            /\ ring'.tail = ring.tail
            /\ ring'.count = ring.count
            /\ ring'.total_produced = ring.total_produced
            /\ ring'.total_consumed = ring.total_consumed
         ]_vars

\* head has wrapped around, values are still in the ring, and a push has
\* failed
C35_Witness ==
    /\ program = "ring_api"
    /\ ring.total_produced > QUEUE_SIZE
    /\ ring.total_consumed >= 1
    /\ ring.count >= 1
    /\ \E p \in Producers : rpc[p] = "done" /\ r_ret[p] = "false"

\* ------------------------------------------------------------------------
\* Wakeups of the Ring
\* ------------------------------------------------------------------------

\* values are in the ring and every consumer sleeps on not_empty, or there
\* is room in the ring and every producer sleeps on not_full
C36_LostWakeup ==
    \/ ring.count > 0 /\ \A c \in Consumers : rpc[c] = "waiting"
    \/ ring.count < QUEUE_SIZE /\ \A p \in Producers : rpc[p] = "waiting"

\* C36: pthread_cond_signal in ring_push and ring_pop loses no wakeup with
\* several producers and consumers: in no reachable state is the ring
\* non-empty with every consumer asleep on not_empty, or not full with
\* every producer asleep on not_full; a sleeper next to a ring it could
\* work on always has a woken or running thread of its kind beside it;
\* and run_benchmark joins all its threads when every thread is scheduled
\* again and again.
C36_NoLostWakeup ==
    /\ [](~C36_LostWakeup)
    /\ []((ring.count > 0 /\ Sleepers(Consumers) # {})
             => \E c \in Consumers : rpc[c] \in {"call", "woken"})
    /\ []((ring.count < QUEUE_SIZE /\ Sleepers(Producers) # {})
             => \E p \in Producers : rpc[p] \in {"call", "woken"})
    /\ (program = "ring_benchmark" => <>(mpc = "joined"))

\* in run_benchmark a value is in the ring, one consumer has been woken
\* for it and the other still sleeps on not_empty
C36_Witness ==
    /\ program = "ring_benchmark"
    /\ ~Stopping(ring)
    /\ ring.count = 1
    /\ \E c \in Consumers : rpc[c] = "woken"
    /\ \E c \in Consumers : rpc[c] = "waiting"
    /\ \E p \in Producers : rpc[p] = "call"

\* ------------------------------------------------------------------------
\* The operation counters of the hash maps
\* ------------------------------------------------------------------------

\* the get and put calls made on the map of a run: those of
\* populate_hashmap and those of the workers
MapCalls == INITIAL_ENTRIES + Cardinality(MapThreads) * OpsPerThread

\* C37: when benchmark_hashmap has joined its workers and read the
\* counters, reads + writes is the number of calls made on the map, for
\* RWLockHashMap as for MutexHashMap: no increment of reads or writes is
\* lost.
C37_CountersAccountForCalls ==
    (program = "hashmap" /\ bench.total_ops # -1) => bench.total_ops = MapCalls

=============================================================================
